---- MODULE Spec2Model ----
(***************************************************************************)
(* The AoE4 World -> Supabase synchronisation pipeline.                    *)
(*                                                                         *)
(*   src/src/api/aoe4world_client.py    AoE4WorldAPIClient                 *)
(*   src/src/database/supabase_client.py SupabaseDBClient                  *)
(*   src/src/sync/sync_service.py       SyncService                        *)
(*                                                                         *)
(* Two specifications share this module.  Spec is the orchestrator         *)
(* (SyncService and the 42-pair aggregator of the API client): every HTTP  *)
(* GET and every row-store upsert of a call is appended to `events`, and   *)
(* what the remote API and the row-store answer is the environment's       *)
(* choice.  ClientSpec is one AoE4WorldAPIClient instance on a clock: the  *)
(* rate limiter and the eight single-endpoint operations.                  *)
(***************************************************************************)
EXTENDS Integers, Sequences, FiniteSets, TLC

(***************************************************************************)
(* Bounds of the model.                                                    *)
(***************************************************************************)
\* Environment events per top-level call that differ from the unremarkable
\* answer (a failed request, an unusual response body, a failed upsert).
MaxAnomalies == 1
\* Last instant of the clock of ClientSpec.
MaxTime == 6
\* Largest configured rate_limit_delay, in clock ticks.
MaxDelay == 2
\* Longest time one HTTP GET takes.
MaxDuration == 2
\* Longest time that time.sleep sleeps beyond the time asked for.
MaxOversleep == 1

(***************************************************************************)
(* Strings that the code takes apart are sequences of characters; strings  *)
(* it only passes along are TLA+ strings.                                  *)
(***************************************************************************)
\* JSON null in place of a string (Python None).
Null == <<"<null>">>
EmptyStr == <<>>

\* dict.get(k, default)
Get(d, k, default) == IF k \in DOMAIN d THEN d[k] ELSE default

\* str.replace(a, b) for single characters
Replace(s, a, b) == [k \in 1..Len(s) |-> IF s[k] = a THEN b ELSE s[k]]

Min(a, b) == IF a < b THEN a ELSE b

\* The optional-argument default of Python (leaderboards=None).
None == <<"<None>">>

civ_map ==
  { <<<<"a","b","b","a","s","i","d">>,
      <<"a","b","b","a","s","i","d">>>>,
    <<<<"a","y","y","u","b","i","d","s">>,
      <<"a","y","y","u","b","i","d","s">>>>,
    <<<<"b","y","z","a","n","t","i","n","e","s">>,
      <<"b","y","z","a","n","t","i","n","e","s">>>>,
    <<<<"c","h","i","n","e","s","e">>,
      <<"c","h","i","n","e","s","e">>>>,
    <<<<"d","e","l","h","i">>,
      <<"d","e","l","h","i">>>>,
    <<<<"e","n","g","l","i","s","h">>,
      <<"e","n","g","l","i","s","h">>>>,
    <<<<"f","r","e","n","c","h">>,
      <<"f","r","e","n","c","h">>>>,
    <<<<"h","r","e">>,
      <<"h","r","e">>>>,
    <<<<"j","a","p","a","n","e","s","e">>,
      <<"j","a","p","a","n","e","s","e">>>>,
    <<<<"m","a","l","i","a","n","s">>,
      <<"m","a","l","i","a","n","s">>>>,
    <<<<"m","o","n","g","o","l","s">>,
      <<"m","o","n","g","o","l","s">>>>,
    <<<<"o","t","t","o","m","a","n","s">>,
      <<"o","t","t","o","m","a","n","s">>>>,
    <<<<"r","u","s">>,
      <<"r","u","s">>>>,
    <<<<"g","o","l","d","e","n","-","h","o","r","d","e">>,
      <<"g","o","l","d","e","n","_","h","o","r","d","e">>>>,
    <<<<"j","e","a","n","n","e","-","d","a","r","c">>,
      <<"j","e","a","n","n","e","_","d","a","r","c">>>>,
    <<<<"l","a","n","c","a","s","t","e","r">>,
      <<"l","a","n","c","a","s","t","e","r">>>>,
    <<<<"m","a","c","e","d","o","n","i","a","n">>,
      <<"m","a","c","e","d","o","n","i","a","n">>>>,
    <<<<"o","r","d","e","r","-","o","f","-","t","h","e","-","d","r","a","g","o","n">>,
      <<"o","r","d","e","r","_","o","f","_","t","h","e","_","d","r","a","g","o","n">>>>,
    <<<<"s","e","n","g","o","k","u">>,
      <<"s","e","n","g","o","k","u">>>>,
    <<<<"t","e","m","p","l","a","r">>,
      <<"t","e","m","p","l","a","r">>>>,
    <<<<"t","u","g","h","l","a","q">>,
      <<"t","u","g","h","l","a","q">>>>,
    <<<<"z","h","u","-","x","i","s","-","l","e","g","a","c","y">>,
      <<"z","h","u","x","i">>>> }

\* SyncService._normalize_civ_id raises AttributeError on None: the default
\* of civ_map.get, civ_slug.replace('-', '_'), is evaluated before the lookup.
normalize_civ_id_raises(civ_slug) == civ_slug = Null

\* The substitution alone, the table left out.
normalize_civ_id_substituted(civ_slug) == Replace(civ_slug, "-", "_")

normalize_civ_id(civ_slug) ==
  IF \E p \in civ_map : p[1] = civ_slug
  THEN (CHOOSE p \in civ_map : p[1] = civ_slug)[2]
  ELSE Replace(civ_slug, "-", "_")

DefaultLeaderboards == <<"rm_solo", "rm_team", "rm_1v1", "rm_2v2", "rm_3v3", "rm_4v4">>
DefaultRankLevels ==
  <<"all", "bronze", "silver", "gold", "platinum", "diamond", "conqueror">>

(***************************************************************************)
(* The remote API, seen from the client: what one GET answers.             *)
(***************************************************************************)
SHre     == [civ_slug |-> <<"h","r","e">>, win_rate |-> 52, pick_rate |-> 9,
             games_count |-> 100, wins |-> 52, losses |-> 48]
SHorde   == [civ_slug |-> <<"g","o","l","d","e","n","-","h","o","r","d","e">>,
             win_rate |-> 47, pick_rate |-> 3, games_count |-> 30, wins |-> 14,
             losses |-> 16]
\* a slug the static table does not know, and a record without counters
SNewCiv  == [civ_slug |-> <<"n","e","w","-","c","i","v">>, win_rate |-> 50]
\* "civ_slug": null
SNull    == [civ_slug |-> Null, win_rate |-> 50, pick_rate |-> 1,
             games_count |-> 2, wins |-> 1, losses |-> 1]

P1 == [profile_id |-> 101, name |-> "alice", rank |-> 1, rating |-> 2100,
       games_count |-> 40, wins |-> 30, losses |-> 10, win_rate |-> 75]
\* a player record without counters
P2 == [profile_id |-> 102, name |-> "bob", rank |-> 2, rating |-> 2050]

\* requests.Response: raise_for_status() raises iff status is not "ok";
\* json is the decoded body.
HttpOk(body) == [status |-> "ok", json |-> body]
HttpError == [status |-> "error", json |-> [error |-> "HTTPError"]]

\* The unremarkable answer to /stats/{leaderboard}, and the others.
CivDefault == HttpOk([civilizations |-> <<SHre>>])
CivAnswers ==
  { HttpError,
    HttpOk([civilizations |-> <<SHorde, SNewCiv>>]),
    HttpOk([civilizations |-> <<SHre, SNull, SHorde>>]) }

\* The unremarkable answer to /leaderboards/{leaderboard}, and the others.
PageDefault == HttpOk([players |-> <<P1>>])
PageAnswers ==
  { HttpError,
    HttpOk([count |-> 0]),
    HttpOk([players |-> <<P1, P2>>]) }

\* The row-store's answer to an upsert is TRUE, or FALSE for an exception.

\* Arguments of the calls.
\* sync_civ_meta_stats(leaderboards, rank_levels): both lists, one of them,
\* or none left to the default; empty lists; the lists of the quick sync.
\* With both left to the default the call is the one sync_all begins with.
SyncCivArgs ==
  { <<None, <<"all", "gold">>>>,
    <<<<"rm_team", "rm_solo">>, None>>,
    <<None, <<>>>>,
    <<<<>>, None>>,
    <<<<>>, <<>>>>,
    <<<<>>, <<"all">>>>,
    <<<<"rm_solo">>, <<>>>>,
    <<<<"rm_solo">>, <<"all">>>>,
    <<<<"rm_team", "rm_solo">>, <<"all", "gold">>>> }
LeaderboardNames == { "rm_solo", "qm_1v1" }
CountArgs == { 0, 10, 50, 200, 201, 1000 }

\* AoE4WorldAPIClient.get_leaderboard caps count at this value.
MaxCount == 200
\* SyncService.sync_all syncs this many players per leaderboard.
SyncAllCount == 50

(***************************************************************************)
(* AoE4WorldAPIClient: the request each operation builds.                  *)
(***************************************************************************)
Request(endpoint, params) == [endpoint |-> endpoint, params |-> params]
NoParams == [x \in {} |-> 0]

get_civ_stats_request(leaderboard, rank_level) ==
  Request(<<"/stats/", leaderboard>>, [rank_level |-> rank_level])

\* A slip: the count is passed on as given.
get_leaderboard_request_uncapped(leaderboard, count, page) ==
  Request(<<"/leaderboards/", leaderboard>>, [count |-> count, page |-> page])

get_leaderboard_request(leaderboard, count, page) ==
  Request(<<"/leaderboards/", leaderboard>>,
          [count |-> Min(count, MaxCount), page |-> page])

\* get_top_players leaves page at get_leaderboard's default, 1
get_top_players_request(leaderboard, count) ==
  get_leaderboard_request(leaderboard, count, 1)

get_player_request(player_id) == Request(<<"/players/", player_id>>, NoParams)

search_players_request(query) == Request(<<"/players/search">>, [query |-> query])

get_player_games_request(player_id, count, page) ==
  Request(<<"/players/", player_id, "/games">>, [count |-> count, page |-> page])

get_game_request(game_id) == Request(<<"/games/", game_id>>, NoParams)

get_map_stats_request(leaderboard) ==
  Request(<<"/stats/", leaderboard, "/maps">>, NoParams)

\* What the operation returns from a 2xx answer: data.get(key, [])
get_civ_stats_result(resp) == Get(resp.json, "civilizations", <<>>)

\* get_top_players tags every player with the leaderboard and a fetch time
TagPlayer(player, leaderboard, t) ==
  [k \in DOMAIN player \cup {"leaderboard", "fetched_at"} |->
     IF k = "leaderboard" THEN leaderboard
     ELSE IF k = "fetched_at" THEN t ELSE player[k]]

get_top_players_result(resp, leaderboard, t) ==
  LET players == Get(resp.json, "players", <<>>)
  IN  [k \in 1..Len(players) |-> TagPlayer(players[k], leaderboard, t)]

\* get_all_civ_stats tags every record with its pair and a fetch time
TagStat(stat, leaderboard, rank_level, t) ==
  [k \in DOMAIN stat \cup {"leaderboard", "rank_level", "fetched_at"} |->
     IF k = "leaderboard" THEN leaderboard
     ELSE IF k = "rank_level" THEN rank_level
     ELSE IF k = "fetched_at" THEN t ELSE stat[k]]

(***************************************************************************)
(* SyncService: the mapping of API records to row-store records.           *)
(***************************************************************************)
StatRaises(stat) == normalize_civ_id_raises(Get(stat, "civ_slug", EmptyStr))

\* A slip: the rank level is left out of the record.
StatRecordAnyRank(stat, leaderboard, rank_level, t) ==
  [civ_id |-> normalize_civ_id(Get(stat, "civ_slug", EmptyStr)),
   leaderboard |-> leaderboard,
   rank_level |-> "all",
   win_rate |-> Get(stat, "win_rate", 0),
   pick_rate |-> Get(stat, "pick_rate", 0),
   games_count |-> Get(stat, "games_count", 0),
   wins |-> Get(stat, "wins", 0),
   losses |-> Get(stat, "losses", 0),
   last_updated |-> t]

StatRecord(stat, leaderboard, rank_level, t) ==
  [civ_id |-> normalize_civ_id(Get(stat, "civ_slug", EmptyStr)),
   leaderboard |-> leaderboard,
   rank_level |-> rank_level,
   win_rate |-> Get(stat, "win_rate", 0),
   pick_rate |-> Get(stat, "pick_rate", 0),
   games_count |-> Get(stat, "games_count", 0),
   wins |-> Get(stat, "wins", 0),
   losses |-> Get(stat, "losses", 0),
   last_updated |-> t]

\* The inner loop of sync_civ_meta_stats appends record after record to
\* all_stats; a record that raises ends the loop, the records before it stay.
RECURSIVE StatRecords(_, _, _, _)
StatRecords(stats, leaderboard, rank_level, t) ==
  IF stats = <<>> \/ StatRaises(Head(stats)) THEN <<>>
  ELSE <<StatRecord(Head(stats), leaderboard, rank_level, t)>>
       \o StatRecords(Tail(stats), leaderboard, rank_level, t)

\* player.get('profile_id') has no default: None when the key is absent
PlayerRecord(player, leaderboard, t) ==
  [player_id |-> Get(player, "profile_id", 0 - 1),
   player_name |-> Get(player, "name", ""),
   rank |-> Get(player, "rank", 0),
   rating |-> Get(player, "rating", 0),
   games_count |-> Get(player, "games_count", 0),
   wins |-> Get(player, "wins", 0),
   losses |-> Get(player, "losses", 0),
   win_rate |-> Get(player, "win_rate", 0),
   leaderboard |-> leaderboard,
   last_updated |-> t]

PlayerRecords(players, leaderboard, t) ==
  [k \in 1..Len(players) |-> PlayerRecord(players[k], leaderboard, t)]

\* The events of a call: an HTTP GET with its answer, a row-store upsert.
GetEvent(req, resp) ==
  [kind |-> "GET", endpoint |-> req.endpoint, params |-> req.params, resp |-> resp]
UpsertEvent(table, rows, ok) ==
  [kind |-> "UPSERT", table |-> table, rows |-> rows, ok |-> ok]

(***************************************************************************)
(* State.                                                                  *)
(***************************************************************************)
VARIABLES
  \* Spec: the call in progress
  top,               \* the public operation that was called
  args,              \* the arguments it was called with
  pc,                \* where it stands: idle, a loop, returned, raised
  leaderboards,      \* sync_civ_meta_stats / get_all_civ_stats: the lists looped over
  rank_levels,
  i,                 \* index of the next (leaderboard, rank_level) pair, from 1
  all_stats,         \* the accumulated list
  count,             \* sync_all_leaderboards: players per leaderboard
  j,                 \* index of the next leaderboard, from 1
  results,           \* sync_all_leaderboards: leaderboard -> count synced
  sync_results,      \* sync_all: its results dict
  ret,               \* the value returned, once pc = "returned"
  events,            \* the GETs and upserts of the call, in order
  anomalies,         \* environment events of the call counted against MaxAnomalies
  utcnow,            \* datetime.utcnow(): every GET takes one unit of time
  logged,            \* the number of logger.error calls of the call
  tables,            \* the row-store: the rows of the two tables synced
  \* the caller of the service
  upstream,          \* what the remote API holds, when that is fixed
  run,               \* RerunSpec: the first or the second run of the sync
  first,             \* RerunSpec: the tables as the first run left them
  \* the construction of the clients and the service
  environ,           \* os.environ: SUPABASE_URL and SUPABASE_KEY, where set
  constructed,       \* the constructor called, with its arguments
  error,             \* the exception the construction raised, or "none"
  db,                \* the SupabaseDBClient the construction made or was given
  connections,       \* the number of create_client calls
  \* scripts/sync_data.py
  argv,              \* the parsed arguments: mode, leaderboard, count
  cli_pc,            \* where main stands: idle, sync_1, sync_2, exited
  stdout,            \* the lines main printed
  exit_code,         \* the exit status of the process, -1 while it runs
  sub_syncs,         \* what each sync main called did, in order
  \* SyncService._normalize_civ_id, called by itself
  civ_slug,          \* the argument
  civ_id,            \* the value returned
  norm_pc,           \* idle, returned or raised
  \* docs/generate_import_sql.py
  data_files,        \* the *-unified.json files of units, buildings, technologies
  output,            \* the statements written to complete_import.sql
  base_units,        \* the identifiers seen, one dict for each kind
  base_buildings,
  base_technologies,
  gen_pc,            \* the part of the script that runs next
  \* ClientSpec: one AoE4WorldAPIClient
  rate_limit_delay,
  last_request_time,
  now,               \* time.time()
  stamps,            \* the last two values _rate_limit gave last_request_time
  gets,              \* the last two GETs: when each started and ended, how it ended
  sent,              \* the request of the last GET
  outcome,           \* how the last operation ended: "return" or "raise"
  cpc,               \* where the client stands: idle, or about to GET
  op,                \* the operation called last
  steps              \* what that operation did so far: "rate_limit", "get"

syncVars == <<top, args, pc, leaderboards, rank_levels, i, all_stats, count, j,
              results, sync_results, ret, events, anomalies, utcnow, logged,
              tables>>
rerunVars == <<upstream, run, first>>
clientVars == <<rate_limit_delay, last_request_time, now, stamps, gets, sent,
                outcome, cpc, op, steps>>
ctorVars == <<environ, constructed, error, db, connections>>
cliVars == <<argv, cli_pc, stdout, exit_code, sub_syncs>>
normVars == <<civ_slug, civ_id, norm_pc>>
genVars == <<data_files, output, base_units, base_buildings, base_technologies, gen_pc>>
toolVars == <<normVars, genVars>>
vars == <<syncVars, clientVars, rerunVars, ctorVars, cliVars, toolVars>>

\* What the actions of the SyncService, and of the API client on its clock,
\* leave alone.
offService == <<clientVars, rerunVars, ctorVars, cliVars, toolVars>>
offClient == <<syncVars, rerunVars, ctorVars, cliVars, toolVars>>

\* time.time() when the client is constructed: far from 0, the initial
\* last_request_time, so that the first request never sleeps.
Epoch == MaxDelay + 1
EndOfTime == Epoch + MaxTime

EmptyDict == [x \in {} |-> 0]

(***************************************************************************)
(* The row-store.  A table is the set of its rows; an upsert replaces the  *)
(* rows that have the key of a row upserted and adds the others.  Of rows  *)
(* of one batch with the same key the later one stays.                     *)
(***************************************************************************)
EmptyTables == [civilization_meta_stats |-> {}, leaderboard_players |-> {}]

\* The composite keys of the two tables
CivKey(r) == <<r.civ_id, r.leaderboard, r.rank_level>>
PlayerKey(r) == <<r.player_id, r.leaderboard>>

\* key takes every row, of the table or upserted, to its key.
Upsert(table, rows, key) ==
  { r \in table : \A k \in 1..Len(rows) : key[rows[k]] # key[r] }
  \cup { rows[k] : k \in { n \in 1..Len(rows) :
                             \A m \in (n + 1)..Len(rows) : key[rows[m]] # key[rows[n]] } }

\* A slip: the rows are inserted; rows that are there stay.
upsert_civ_meta_stats_insert(table, stats) ==
  table \cup { stats[k] : k \in 1..Len(stats) }

\* SupabaseDBClient.upsert_civ_meta_stats(stats), when it succeeds
upsert_civ_meta_stats(table, stats) ==
  Upsert(table, stats,
         [r \in table \cup {stats[k] : k \in 1..Len(stats)} |-> CivKey(r)])

\* SupabaseDBClient.upsert_leaderboard_players(players), when it succeeds
upsert_leaderboard_players(table, players) ==
  Upsert(table, players,
         [r \in table \cup {players[k] : k \in 1..Len(players)} |-> PlayerKey(r)])

\* The remote API answers as it likes (Spec), or holds fixed data: the
\* statistics and the page of rm_solo, and those of every other leaderboard.
AnyUpstream == [fixed |-> FALSE]
CivBodies == { <<SHre>>, <<SHorde, SNewCiv>>, <<SHre, SNull, SHorde>> }
PageBodies == { [count |-> 0], [players |-> <<P1>>], [players |-> <<P1, P2>>] }
FixedUpstreams ==
  [fixed : {TRUE}, solo : CivBodies, other : CivBodies,
   page_solo : PageBodies, page_other : PageBodies]

\* SyncService.__init__ builds its own client: the default delay, 0.5 s,
\* is the largest delay of the model.
InitService ==
  /\ top = "none"
  /\ args = <<>>
  /\ pc = "idle"
  /\ leaderboards = <<>>
  /\ rank_levels = <<>>
  /\ i = 1
  /\ all_stats = <<>>
  /\ count = 0
  /\ j = 1
  /\ results = EmptyDict
  /\ sync_results = EmptyDict
  /\ ret = 0
  /\ events = <<>>
  /\ anomalies = 0
  /\ utcnow = 0
  /\ logged = 0
  /\ tables = EmptyTables

\* AoE4WorldAPIClient.__init__(rate_limit_delay), lines 27-28
InitClient(delay) ==
  /\ rate_limit_delay = delay
  /\ last_request_time = 0
  /\ now = Epoch
  /\ stamps = <<>>
  /\ gets = <<>>
  /\ sent = Request(<<>>, NoParams)
  /\ outcome = "none"
  /\ cpc = "idle"
  /\ op = "none"
  /\ steps = <<>>

(***************************************************************************)
(* SupabaseDBClient.__init__ and SyncService.__init__                      *)
(***************************************************************************)
SomeUrl == <<"h","t","t","p","s">>
SomeKey == <<"k","e","y">>

\* bool(x) of None, of a string
Truthy(x) == x # None /\ x # EmptyStr
\* a or b
PyOr(a, b) == IF Truthy(a) THEN a ELSE b

\* os.environ with SUPABASE_URL = u and SUPABASE_KEY = k, None for not set
EnvOf(u, k) ==
  [n \in {x \in {"SUPABASE_URL"} : u # None} \cup {x \in {"SUPABASE_KEY"} : k # None}
     |-> IF n = "SUPABASE_URL" THEN u ELSE k]

\* lines 21-22: self.url, self.key
db_url(url) == PyOr(url, Get(environ, "SUPABASE_URL", None))
db_key(key) == PyOr(key, Get(environ, "SUPABASE_KEY", None))

\* A slip: `and` for `or`, the error is raised only when both are missing.
SupabaseDBClientRaisesBoth(url, key) ==
  ~Truthy(db_url(url)) /\ ~Truthy(db_key(key))

\* lines 24-25: if not self.url or not self.key: raise ValueError
SupabaseDBClientRaises(url, key) ==
  ~Truthy(db_url(url)) \/ ~Truthy(db_key(key))

NoClient == [made |-> FALSE, url |-> None, key |-> None, client |-> 0]
\* a client made by the caller beforehand
GivenClient == [made |-> TRUE, url |-> SomeUrl, key |-> SomeKey, client |-> 0]

\* SupabaseDBClient(url, key), lines 13-27: the ValueError, or the client with
\* the connection create_client made
SupabaseDBClientInit(url, key) ==
  IF SupabaseDBClientRaises(url, key)
  THEN /\ error' = "ValueError"
       /\ db' = NoClient
       /\ UNCHANGED connections
  ELSE /\ error' = "none"
       /\ db' = [made |-> TRUE, url |-> db_url(url), key |-> db_key(key),
                 client |-> connections + 1]
       /\ connections' = connections + 1

\* SyncService(api_client, db_client), lines 30-31:
\* self.db = db_client or SupabaseDBClient(); a client object is truthy
SyncServiceInit(db_client) ==
  IF db_client.made
  THEN /\ error' = "none"
       /\ db' = db_client
       /\ UNCHANGED connections
  ELSE SupabaseDBClientInit(None, None)

InitCtor(env) ==
  /\ environ = env
  /\ constructed = <<>>
  /\ error = "none"
  /\ db = NoClient
  /\ connections = 0

\* The command-line tool has not been started.
InitCli ==
  /\ argv = <<>>
  /\ cli_pc = "idle"
  /\ stdout = <<>>
  /\ exit_code = 0 - 1
  /\ sub_syncs = <<>>

\* _normalize_civ_id has not been called by itself.
InitNormalize(slug) ==
  /\ civ_slug = slug
  /\ civ_id = EmptyStr
  /\ norm_pc = "idle"

\* The SQL generator has not been started; `files` are the files it will read.
InitGenerator(files) ==
  /\ data_files = files
  /\ output = <<>>
  /\ base_units = {}
  /\ base_buildings = {}
  /\ base_technologies = {}
  /\ gen_pc = "start"

\* The four directories, empty: a directory takes a path to the file's JSON.
NoFiles ==
  [civilizations |-> EmptyDict, units |-> EmptyDict, buildings |-> EmptyDict,
   technologies |-> EmptyDict]

\* The tools that a specification does not look at
InitTools == InitNormalize(EmptyStr) /\ InitGenerator(NoFiles)

\* Where construction is not looked at the environment is complete.
Configured == EnvOf(SomeUrl, SomeKey)

\* The caller makes one call, of an API that answers as it likes.
InitCaller ==
  /\ upstream = AnyUpstream
  /\ run = 1
  /\ first = EmptyTables

Init ==
  InitService /\ InitClient(MaxDelay) /\ InitCaller /\ InitCtor(Configured) /\ InitCli
  /\ InitTools

ClientInit ==
  /\ InitService
  /\ InitCaller
  /\ InitCtor(Configured)
  /\ InitCli
  /\ InitTools
  /\ \E delay \in 0..MaxDelay : InitClient(delay)

(***************************************************************************)
(* The environment of a call.                                              *)
(***************************************************************************)
\* A call starts on a service that is doing nothing.  A call leaves nothing
\* behind in the SyncService that a later call reads (the client's
\* last_request_time is followed in ClientSpec), so every call is a call on a
\* fresh service.
Callable == pc = "idle"

\* The answers the environment may give now: the unremarkable one, and the
\* others while the call has anomalies left.  Where the upstream data is
\* fixed nothing fails.
Answers(default, others) ==
  IF ~upstream.fixed /\ anomalies < MaxAnomalies THEN {default} \cup others
  ELSE {default}

\* What GET /stats/{leaderboard} may answer now
StatsAnswers(leaderboard) ==
  IF upstream.fixed
  THEN { HttpOk([civilizations |-> IF leaderboard = "rm_solo" THEN upstream.solo
                                   ELSE upstream.other]) }
  ELSE Answers(CivDefault, CivAnswers)

\* What GET /leaderboards/{leaderboard} answers where the data is fixed
UpstreamPage(leaderboard) ==
  HttpOk(IF leaderboard = "rm_solo" THEN upstream.page_solo ELSE upstream.page_other)

Cost(answer, default) == IF answer = default THEN 0 ELSE 1

\* A fresh call of a public operation.
Begin(name, arguments) ==
  /\ Callable
  /\ top' = name
  /\ args' = arguments
  /\ sync_results' = EmptyDict

\* The locals of the loops a call does not run are as at the start.
NoPairLoop ==
  /\ leaderboards' = <<>>
  /\ rank_levels' = <<>>
  /\ i' = 1
  /\ all_stats' = <<>>

NoLeaderboardLoop ==
  /\ count' = 0
  /\ j' = 1
  /\ results' = EmptyDict

\* A fresh call that goes on in further steps: nothing requested or written yet.
BeginSteps(name, arguments) ==
  /\ Begin(name, arguments)
  /\ ret' = 0
  /\ events' = <<>>
  /\ anomalies' = 0
  /\ logged' = 0
  /\ UNCHANGED <<utcnow, tables>>

NumPairs == Len(leaderboards) * Len(rank_levels)
\* The k-th pair of "for leaderboard in leaderboards: for rank_level in rank_levels"
PairLeaderboard(k) == leaderboards[((k - 1) \div Len(rank_levels)) + 1]
PairRankLevel(k) == rank_levels[((k - 1) % Len(rank_levels)) + 1]

(***************************************************************************)
(* SyncService.sync_civ_meta_stats                                         *)
(***************************************************************************)
\* A slip: "leaderboards or [...]" replaces an empty list too.
EnterSyncCivMetaStatsFalsy(lbs, rls) ==
  /\ leaderboards' = IF lbs = None \/ lbs = <<>> THEN DefaultLeaderboards ELSE lbs
  /\ rank_levels' = IF rls = None \/ rls = <<>> THEN DefaultRankLevels ELSE rls
  /\ all_stats' = <<>>
  /\ i' = 1
  /\ pc' = "sync_civ_meta_stats"

\* lines 50-58: the defaults replace None only
EnterSyncCivMetaStats(lbs, rls) ==
  /\ leaderboards' = IF lbs = None THEN DefaultLeaderboards ELSE lbs
  /\ rank_levels' = IF rls = None THEN DefaultRankLevels ELSE rls
  /\ all_stats' = <<>>
  /\ i' = 1
  /\ pc' = "sync_civ_meta_stats"

sync_civ_meta_stats(lbs, rls) ==
  /\ BeginSteps("sync_civ_meta_stats", <<lbs, rls>>)
  /\ EnterSyncCivMetaStats(lbs, rls)
  /\ NoLeaderboardLoop
  /\ UNCHANGED offService

\* line 82, logger.error: the fetch of the pair raised, or the mapping of one
\* of its records did
StatsRaise(stats) == \E k \in 1..Len(stats) : StatRaises(stats[k])
SyncCivErrors(resp) ==
  IF resp.status # "ok" \/ StatsRaise(get_civ_stats_result(resp)) THEN 1 ELSE 0

\* A slip: the records carry the time at which the batch is written, which is
\* the time the last pair is fetched.
SyncCivFetchedStampedAtWrite(resp) ==
  LET leaderboard == PairLeaderboard(i)
      rank_level == PairRankLevel(i)
  IN  /\ events' = Append(events,
                     GetEvent(get_civ_stats_request(leaderboard, rank_level), resp))
      /\ all_stats' =
           IF resp.status # "ok" THEN all_stats
           ELSE all_stats \o StatRecords(get_civ_stats_result(resp),
                                         leaderboard, rank_level, NumPairs)
      /\ anomalies' = anomalies + Cost(resp, CivDefault)
      /\ utcnow' = utcnow + 1
      /\ logged' = logged + SyncCivErrors(resp)
      /\ i' = i + 1
      /\ UNCHANGED tables

\* A slip: the records of a pair are upserted as soon as they are mapped.
SyncCivFetchedUpsertEach(resp) ==
  LET leaderboard == PairLeaderboard(i)
      rank_level == PairRankLevel(i)
      get == GetEvent(get_civ_stats_request(leaderboard, rank_level), resp)
      mapped == IF resp.status # "ok" THEN <<>>
                ELSE StatRecords(get_civ_stats_result(resp), leaderboard,
                                 rank_level, utcnow + 1)
  IN  /\ events' = IF mapped = <<>> THEN Append(events, get)
                   ELSE events \o <<get, UpsertEvent("civilization_meta_stats",
                                                     mapped, TRUE)>>
      /\ all_stats' = all_stats \o mapped
      /\ tables' = [tables EXCEPT !.civilization_meta_stats =
                                    upsert_civ_meta_stats(@, mapped)]
      /\ anomalies' = anomalies + Cost(resp, CivDefault)
      /\ utcnow' = utcnow + 1
      /\ logged' = logged + SyncCivErrors(resp)
      /\ i' = i + 1

\* lines 62-82, one pass of the loop body: fetch the pair, map its records;
\* whatever is raised is logged and the loop goes on.
SyncCivFetched(resp) ==
  LET leaderboard == PairLeaderboard(i)
      rank_level == PairRankLevel(i)
  IN  /\ events' = Append(events,
                     GetEvent(get_civ_stats_request(leaderboard, rank_level), resp))
      /\ all_stats' =
           IF resp.status # "ok" THEN all_stats
           ELSE all_stats \o StatRecords(get_civ_stats_result(resp),
                                         leaderboard, rank_level, utcnow + 1)
      /\ anomalies' = anomalies + Cost(resp, CivDefault)
      /\ utcnow' = utcnow + 1
      /\ logged' = logged + SyncCivErrors(resp)
      /\ i' = i + 1
      /\ UNCHANGED tables

sync_civ_meta_stats_pair ==
  /\ pc = "sync_civ_meta_stats"
  /\ i <= NumPairs
  /\ \E resp \in StatsAnswers(PairLeaderboard(i)) : SyncCivFetched(resp)
  /\ UNCHANGED <<top, args, pc, leaderboards, rank_levels, count, j, results,
                 sync_results, ret, offService>>

\* A slip: the error of the upsert is caught, the count returned all the same.
SyncCivUpsertedCaught(ok) ==
  /\ events' = IF all_stats = <<>> THEN events
               ELSE Append(events,
                           UpsertEvent("civilization_meta_stats", all_stats, ok))
  /\ tables' = IF ok /\ all_stats # <<>>
               THEN [tables EXCEPT !.civilization_meta_stats =
                                     upsert_civ_meta_stats(@, all_stats)]
               ELSE tables
  /\ anomalies' = anomalies + Cost(ok, TRUE)
  /\ IF top = "sync_all"
     THEN /\ sync_results' = [civ_meta_stats |-> Len(all_stats)]
          /\ count' = SyncAllCount
          /\ j' = 1
          /\ results' = EmptyDict
          /\ pc' = "sync_all_leaderboards"
          /\ UNCHANGED ret
     ELSE /\ ret' = Len(all_stats)
          /\ pc' = "returned"
          /\ UNCHANGED <<sync_results, count, j, results>>

\* lines 84-89: one upsert of the whole list unless it is empty; an error of
\* the upsert is not caught.  Within sync_all (lines 189-193) the count goes
\* into results['civ_meta_stats'] and sync_all_leaderboards(count=50) starts.
SyncCivUpserted(ok) ==
  /\ events' = IF all_stats = <<>> THEN events
               ELSE Append(events,
                           UpsertEvent("civilization_meta_stats", all_stats, ok))
  /\ tables' = IF ok /\ all_stats # <<>>
               THEN [tables EXCEPT !.civilization_meta_stats =
                                     upsert_civ_meta_stats(@, all_stats)]
               ELSE tables
  /\ anomalies' = anomalies + Cost(ok, TRUE)
  /\ IF ~ok
     THEN /\ pc' = "raised"
          /\ UNCHANGED <<ret, sync_results, count, j, results>>
     ELSE IF top = "sync_all"
     THEN /\ sync_results' = [civ_meta_stats |-> Len(all_stats)]
          /\ count' = SyncAllCount
          /\ j' = 1
          /\ results' = EmptyDict
          /\ pc' = "sync_all_leaderboards"
          /\ UNCHANGED ret
     ELSE /\ ret' = Len(all_stats)
          /\ pc' = "returned"
          /\ UNCHANGED <<sync_results, count, j, results>>

sync_civ_meta_stats_upsert ==
  /\ pc = "sync_civ_meta_stats"
  /\ i > NumPairs
  /\ \E ok \in (IF all_stats = <<>> THEN {TRUE} ELSE Answers(TRUE, {FALSE})) :
       SyncCivUpserted(ok)
  /\ UNCHANGED <<top, args, leaderboards, rank_levels, i, all_stats, utcnow, logged,
                 offService>>

(***************************************************************************)
(* SyncService.sync_leaderboard                                            *)
(***************************************************************************)
\* The records built from the page (lines 123-140)
SyncLeaderboardRecords(leaderboard, resp, t) ==
  PlayerRecords(get_top_players_result(resp, leaderboard, t), leaderboard, t)

\* lines 122-150: one GET; the upsert when there are records; every error,
\* of the GET or of the upsert, is caught and 0 returned.
SyncLeaderboardEvents(leaderboard, n, resp, ok, t) ==
  LET get == GetEvent(get_top_players_request(leaderboard, n), resp)
      db_records == SyncLeaderboardRecords(leaderboard, resp, t)
  IN  IF resp.status # "ok" \/ db_records = <<>> THEN <<get>>
      ELSE <<get, UpsertEvent("leaderboard_players", db_records, ok)>>

SyncLeaderboardReturn(leaderboard, resp, ok, t) ==
  IF resp.status # "ok" \/ ~ok THEN 0
  ELSE Len(SyncLeaderboardRecords(leaderboard, resp, t))

\* lines 142-143: the table after the upsert, when there is one and it succeeds
SyncLeaderboardUpserted(table, leaderboard, resp, ok, t) ==
  IF resp.status = "ok" /\ ok /\ SyncLeaderboardRecords(leaderboard, resp, t) # <<>>
  THEN upsert_leaderboard_players(table, SyncLeaderboardRecords(leaderboard, resp, t))
  ELSE table

\* lines 148-150, logger.error
SyncLeaderboardErrors(resp, ok) == IF resp.status # "ok" \/ ~ok THEN 1 ELSE 0

\* What the remote API and the row-store may answer to one sync_leaderboard
\* when `used` anomalies are spent: <<the page, the upsert's success>>.  The
\* upsert can only fail where there is one.
LeaderboardAnswers(leaderboard, used) ==
  IF upstream.fixed THEN { <<UpstreamPage(leaderboard), TRUE>> }
  ELSE
  { a \in ({PageDefault} \cup PageAnswers) \X BOOLEAN :
      /\ used + Cost(a[1], PageDefault) + Cost(a[2], TRUE) <= MaxAnomalies
      /\ a[2] \/ Len(SyncLeaderboardEvents(leaderboard, 0, a[1], a[2], 0)) = 2 }

sync_leaderboard(leaderboard, n) ==
  /\ Begin("sync_leaderboard", <<leaderboard, n>>)
  /\ \E a \in LeaderboardAnswers(leaderboard, 0) :
       /\ events' = SyncLeaderboardEvents(leaderboard, n, a[1], a[2], utcnow + 1)
       /\ ret' = SyncLeaderboardReturn(leaderboard, a[1], a[2], utcnow + 1)
       /\ tables' = [tables EXCEPT !.leaderboard_players =
                       SyncLeaderboardUpserted(@, leaderboard, a[1], a[2], utcnow + 1)]
       /\ anomalies' = Cost(a[1], PageDefault) + Cost(a[2], TRUE)
       /\ logged' = SyncLeaderboardErrors(a[1], a[2])
  /\ utcnow' = utcnow + 1
  /\ pc' = "returned"
  /\ NoPairLoop
  /\ NoLeaderboardLoop
  /\ UNCHANGED offService

(***************************************************************************)
(* SyncService.sync_all_leaderboards                                       *)
(***************************************************************************)
EnterSyncAllLeaderboards(n) ==
  /\ count' = n
  /\ j' = 1
  /\ results' = EmptyDict
  /\ pc' = "sync_all_leaderboards"

sync_all_leaderboards(n) ==
  /\ BeginSteps("sync_all_leaderboards", <<n>>)
  /\ EnterSyncAllLeaderboards(n)
  /\ NoPairLoop
  /\ UNCHANGED offService

\* results[leaderboard] = value
DictSet(d, k, v) == [x \in DOMAIN d \cup {k} |-> IF x = k THEN v ELSE d[x]]

\* A slip: the loop ends at the first leaderboard whose sync failed.
SyncAllLeaderboardsSyncedStop(leaderboard, resp, ok) ==
  /\ events' = events \o SyncLeaderboardEvents(leaderboard, count, resp, ok, utcnow + 1)
  /\ results' = DictSet(results, leaderboard,
                        SyncLeaderboardReturn(leaderboard, resp, ok, utcnow + 1))
  /\ tables' = [tables EXCEPT !.leaderboard_players =
                  SyncLeaderboardUpserted(@, leaderboard, resp, ok, utcnow + 1)]
  /\ anomalies' = anomalies + Cost(resp, PageDefault) + Cost(ok, TRUE)
  /\ logged' = logged + SyncLeaderboardErrors(resp, ok)
  /\ utcnow' = utcnow + 1
  /\ j' = IF resp.status # "ok" \/ ~ok THEN Len(DefaultLeaderboards) + 1 ELSE j + 1

\* lines 165-166, one pass: results[leaderboard] = self.sync_leaderboard(...)
SyncAllLeaderboardsSynced(leaderboard, resp, ok) ==
  /\ events' = events \o SyncLeaderboardEvents(leaderboard, count, resp, ok, utcnow + 1)
  /\ results' = DictSet(results, leaderboard,
                        SyncLeaderboardReturn(leaderboard, resp, ok, utcnow + 1))
  /\ tables' = [tables EXCEPT !.leaderboard_players =
                  SyncLeaderboardUpserted(@, leaderboard, resp, ok, utcnow + 1)]
  /\ anomalies' = anomalies + Cost(resp, PageDefault) + Cost(ok, TRUE)
  /\ logged' = logged + SyncLeaderboardErrors(resp, ok)
  /\ utcnow' = utcnow + 1
  /\ j' = j + 1

sync_all_leaderboards_step ==
  /\ pc = "sync_all_leaderboards"
  /\ j <= Len(DefaultLeaderboards)
  /\ \E a \in LeaderboardAnswers(DefaultLeaderboards[j], anomalies) :
       SyncAllLeaderboardsSynced(DefaultLeaderboards[j], a[1], a[2])
  /\ UNCHANGED <<top, args, pc, leaderboards, rank_levels, i, all_stats, count,
                 sync_results, ret, offService>>

\* sum(leaderboard_results.values())
RECURSIVE SumValues(_)
SumValues(d) ==
  IF DOMAIN d = {} THEN 0
  ELSE LET k == CHOOSE x \in DOMAIN d : TRUE
       IN  d[k] + SumValues([x \in DOMAIN d \ {k} |-> d[x]])

\* A slip: len(leaderboard_results) in place of the sum of its values.
SyncAllResultsLen(civ_count, leaderboard_results) ==
  [civ_meta_stats |-> civ_count,
   leaderboards |-> leaderboard_results,
   total_players |-> Cardinality(DOMAIN leaderboard_results)]

\* line 168; within sync_all, lines 194-203
SyncAllResults(civ_count, leaderboard_results) ==
  [civ_meta_stats |-> civ_count,
   leaderboards |-> leaderboard_results,
   total_players |-> SumValues(leaderboard_results)]

sync_all_leaderboards_return ==
  /\ pc = "sync_all_leaderboards"
  /\ j > Len(DefaultLeaderboards)
  /\ IF top = "sync_all"
     THEN /\ sync_results' = SyncAllResults(sync_results.civ_meta_stats, results)
          /\ ret' = sync_results'
     ELSE /\ ret' = results
          /\ UNCHANGED sync_results
  /\ pc' = "returned"
  /\ UNCHANGED <<top, args, leaderboards, rank_levels, i, all_stats, count, j, results,
                 events, anomalies, utcnow, logged, tables, offService>>

(***************************************************************************)
(* SyncService.sync_all                                                    *)
(***************************************************************************)
\* lines 185-189: results = {}, then sync_civ_meta_stats() with both defaults
sync_all ==
  /\ BeginSteps("sync_all", <<>>)
  /\ EnterSyncCivMetaStats(None, None)
  /\ NoLeaderboardLoop
  /\ UNCHANGED offService

(***************************************************************************)
(* AoE4WorldAPIClient.get_all_civ_stats                                    *)
(***************************************************************************)
get_all_civ_stats ==
  /\ BeginSteps("get_all_civ_stats", <<>>)
  /\ leaderboards' = DefaultLeaderboards
  /\ rank_levels' = DefaultRankLevels
  /\ all_stats' = <<>>
  /\ i' = 1
  /\ pc' = "get_all_civ_stats"
  /\ NoLeaderboardLoop
  /\ UNCHANGED offService

\* A slip: no try around the fetch, the first failure ends the loop.
GetAllCivStatsFetchedAbort(resp) ==
  LET leaderboard == PairLeaderboard(i)
      rank_level == PairRankLevel(i)
      stats == get_civ_stats_result(resp)
  IN  /\ events' = Append(events,
                     GetEvent(get_civ_stats_request(leaderboard, rank_level), resp))
      /\ all_stats' =
           IF resp.status # "ok" THEN all_stats
           ELSE all_stats \o [k \in 1..Len(stats) |->
                                TagStat(stats[k], leaderboard, rank_level, utcnow + 1)]
      /\ anomalies' = anomalies + Cost(resp, CivDefault)
      /\ utcnow' = utcnow + 1
      /\ UNCHANGED <<logged, tables>>
      /\ i' = IF resp.status # "ok" THEN NumPairs + 1 ELSE i + 1

\* lines 94-102, one pass: the records are tagged in place and then added
\* all at once; whatever is raised is printed (not logged) and the loop goes on.
GetAllCivStatsFetched(resp) ==
  LET leaderboard == PairLeaderboard(i)
      rank_level == PairRankLevel(i)
      stats == get_civ_stats_result(resp)
  IN  /\ events' = Append(events,
                     GetEvent(get_civ_stats_request(leaderboard, rank_level), resp))
      /\ all_stats' =
           IF resp.status # "ok" THEN all_stats
           ELSE all_stats \o [k \in 1..Len(stats) |->
                                TagStat(stats[k], leaderboard, rank_level, utcnow + 1)]
      /\ anomalies' = anomalies + Cost(resp, CivDefault)
      /\ utcnow' = utcnow + 1
      /\ UNCHANGED <<logged, tables>>
      /\ i' = i + 1

get_all_civ_stats_pair ==
  /\ pc = "get_all_civ_stats"
  /\ i <= NumPairs
  /\ \E resp \in StatsAnswers(PairLeaderboard(i)) : GetAllCivStatsFetched(resp)
  /\ UNCHANGED <<top, args, pc, leaderboards, rank_levels, count, j, results,
                 sync_results, ret, offService>>

get_all_civ_stats_return ==
  /\ pc = "get_all_civ_stats"
  /\ i > NumPairs
  /\ ret' = all_stats
  /\ pc' = "returned"
  /\ UNCHANGED <<top, args, leaderboards, rank_levels, i, all_stats, count, j, results,
                 sync_results, events, anomalies, utcnow, logged, tables, offService>>

Next ==
  \/ \E a \in SyncCivArgs : sync_civ_meta_stats(a[1], a[2])
  \/ sync_civ_meta_stats_pair
  \/ sync_civ_meta_stats_upsert
  \/ \E leaderboard \in LeaderboardNames, n \in CountArgs :
       sync_leaderboard(leaderboard, n)
  \/ \E n \in CountArgs : sync_all_leaderboards(n)
  \/ sync_all_leaderboards_step
  \/ sync_all_leaderboards_return
  \/ sync_all
  \/ get_all_civ_stats
  \/ get_all_civ_stats_pair
  \/ get_all_civ_stats_return

Spec == Init /\ [][Next]_vars

(***************************************************************************)
(* A sync run twice, on unchanged upstream data and without failures.      *)
(***************************************************************************)
RerunInit ==
  /\ InitService
  /\ InitClient(MaxDelay)
  /\ InitCtor(Configured)
  /\ InitCli
  /\ InitTools
  /\ upstream \in FixedUpstreams
  /\ run = 1
  /\ first = EmptyTables

\* The second run is the call the first run was.
Again(name, arguments) == run = 2 => (top = name /\ args = arguments)

\* The first run has returned; the caller notes the tables and calls again.
call_again ==
  /\ run = 1
  /\ pc = "returned"
  /\ run' = 2
  /\ first' = tables
  /\ pc' = "idle"
  /\ UNCHANGED <<top, args, leaderboards, rank_levels, i, all_stats, count, j, results,
                 sync_results, ret, events, anomalies, utcnow, logged, tables,
                 upstream, clientVars, ctorVars, cliVars, toolVars>>

RerunNext ==
  \/ \E a \in SyncCivArgs :
       Again("sync_civ_meta_stats", a) /\ sync_civ_meta_stats(a[1], a[2])
  \/ sync_civ_meta_stats_pair
  \/ sync_civ_meta_stats_upsert
  \/ \E leaderboard \in LeaderboardNames, n \in CountArgs :
       Again("sync_leaderboard", <<leaderboard, n>>) /\ sync_leaderboard(leaderboard, n)
  \/ Again("sync_all", <<>>) /\ sync_all
  \/ sync_all_leaderboards_step
  \/ sync_all_leaderboards_return
  \/ call_again

RerunSpec == RerunInit /\ [][RerunNext]_vars

(***************************************************************************)
(* sync_civ_meta_stats on answers that differ in their slugs only: every   *)
(* pair of rm_solo is answered the records of one list of pairwise         *)
(* different slugs, every pair of another leaderboard those of another.    *)
(***************************************************************************)
\* Most records in one answer.
MaxSlugs == 2
SlugPool ==
  { <<"h","r","e">>,
    <<"g","o","l","d","e","n","-","h","o","r","d","e">>,
    <<"g","o","l","d","e","n","_","h","o","r","d","e">>,
    <<"z","h","u","-","x","i","s","-","l","e","g","a","c","y">>,
    <<"z","h","u","x","i">>,
    <<"n","e","w","-","c","i","v">>,
    <<"n","e","w","_","c","i","v">> }
DistinctSlugs(n) ==
  { q \in UNION {[1..k -> SlugPool] : k \in 0..n} :
      \A a, b \in 1..Len(q) : a # b => q[a] # q[b] }
StatsOf(slugs) == [k \in 1..Len(slugs) |-> [civ_slug |-> slugs[k], win_rate |-> 50]]
KeyUpstreams ==
  { [fixed |-> TRUE, solo |-> StatsOf(solo), other |-> StatsOf(other),
     page_solo |-> [count |-> 0], page_other |-> [count |-> 0]] :
    solo \in DistinctSlugs(MaxSlugs), other \in DistinctSlugs(1) }
\* Lists without repeated entries
KeyArgs ==
  { <<<<"rm_solo">>, <<"all">>>>,
    <<<<"rm_team", "rm_solo">>, <<"all", "gold">>>> }

KeyInit ==
  /\ InitService
  /\ InitClient(MaxDelay)
  /\ InitCtor(Configured)
  /\ InitCli
  /\ InitTools
  /\ upstream \in KeyUpstreams
  /\ run = 1
  /\ first = EmptyTables

KeyNext ==
  \/ \E a \in KeyArgs : sync_civ_meta_stats(a[1], a[2])
  \/ sync_civ_meta_stats_pair
  \/ sync_civ_meta_stats_upsert

KeySpec == KeyInit /\ [][KeyNext]_vars

(***************************************************************************)
(* The construction of the row-store client and of the service.            *)
(***************************************************************************)
OptionalStrings == { None, EmptyStr }
Environs ==
  { EnvOf(u, k) : u \in OptionalStrings \cup {SomeUrl},
                  k \in OptionalStrings \cup {SomeKey} }

CtorInit ==
  /\ InitService
  /\ InitClient(MaxDelay)
  /\ InitCaller
  /\ InitCli
  /\ InitTools
  /\ \E env \in Environs : InitCtor(env)

new_SupabaseDBClient(url, key) ==
  /\ constructed = <<>>
  /\ constructed' = <<"SupabaseDBClient", url, key>>
  /\ SupabaseDBClientInit(url, key)
  /\ UNCHANGED <<environ, syncVars, clientVars, rerunVars, cliVars, toolVars>>

new_SyncService(db_client) ==
  /\ constructed = <<>>
  /\ constructed' = <<"SyncService", db_client>>
  /\ SyncServiceInit(db_client)
  /\ UNCHANGED <<environ, syncVars, clientVars, rerunVars, cliVars, toolVars>>

\* lines 247-250: return SyncService(api_client=api_client, db_client=db_client)
create_sync_service(db_client) ==
  /\ constructed = <<>>
  /\ constructed' = <<"create_sync_service", db_client>>
  /\ SyncServiceInit(db_client)
  /\ UNCHANGED <<environ, syncVars, clientVars, rerunVars, cliVars, toolVars>>

CtorNext ==
  \/ \E url \in OptionalStrings \cup {SomeUrl}, key \in OptionalStrings \cup {SomeKey} :
       new_SupabaseDBClient(url, key)
  \/ \E db_client \in {NoClient, GivenClient} : new_SyncService(db_client)
  \/ \E db_client \in {NoClient, GivenClient} : create_sync_service(db_client)

CtorSpec == CtorInit /\ [][CtorNext]_vars

(***************************************************************************)
(* scripts/sync_data.py: main                                              *)
(***************************************************************************)
\* The command lines looked at: each mode with the defaults of the other
\* options, and the leaderboard mode with options given.
CliArgs ==
  { <<"quick", "rm_solo", 50>>,
    <<"full", "rm_solo", 50>>,
    <<"civ-stats", "rm_solo", 50>>,
    <<"leaderboard", "rm_solo", 50>>,
    <<"leaderboard", "qm_1v1", 201>> }
CliEnvirons == { Configured, EnvOf(SomeUrl, None) }

CliInit ==
  /\ InitService
  /\ InitClient(MaxDelay)
  /\ InitCaller
  /\ InitCli
  /\ InitTools
  /\ \E env \in CliEnvirons : InitCtor(env)

\* lines 25-31: parse the arguments, create the service, print the start
\* line.  A ValueError of create_sync_service ends the process.
main(a) ==
  /\ cli_pc = "idle"
  /\ argv' = a
  /\ constructed' = <<"create_sync_service", NoClient>>
  /\ SyncServiceInit(NoClient)
  /\ IF SupabaseDBClientRaises(None, None)
     THEN /\ cli_pc' = "exited"
          /\ exit_code' = 1
          /\ stdout' = <<>>
     ELSE /\ cli_pc' = "sync_1"
          /\ stdout' = <<"Starting sync">>
          /\ UNCHANGED exit_code
  /\ sub_syncs' = <<>>
  /\ UNCHANGED <<environ, syncVars, clientVars, rerunVars, toolVars>>

\* SyncService.sync_civ_meta_stats_quick, lines 91-101
sync_civ_meta_stats_quick == sync_civ_meta_stats(<<"rm_solo">>, <<"all">>)

\* lines 33-36
main_quick_civ_stats ==
  cli_pc = "sync_1" /\ argv[1] = "quick" /\ sync_civ_meta_stats_quick

main_quick_leaderboard ==
  cli_pc = "sync_2" /\ argv[1] = "quick" /\ sync_leaderboard("rm_solo", 50)

\* lines 38-40
main_full == cli_pc = "sync_1" /\ argv[1] = "full" /\ sync_all

\* lines 42-44
main_civ_stats ==
  cli_pc = "sync_1" /\ argv[1] = "civ-stats" /\ sync_civ_meta_stats(None, None)

\* lines 46-48
main_leaderboard ==
  cli_pc = "sync_1" /\ argv[1] = "leaderboard" /\ sync_leaderboard(argv[2], argv[3])

\* What main could see of the sync that ended
SubSync ==
  [top |-> top, raised |-> pc = "raised", ret |-> ret, events |-> events,
   logged |-> logged]

\* A slip: main catches what a sync raises and goes on.
main_raised_caught ==
  /\ cli_pc \in {"sync_1", "sync_2"}
  /\ pc = "raised"
  /\ sub_syncs' = Append(sub_syncs, SubSync)
  /\ cli_pc' = "exited"
  /\ stdout' = Append(stdout, "Sync complete!")
  /\ exit_code' = 0
  /\ UNCHANGED <<argv, syncVars, clientVars, rerunVars, ctorVars, toolVars>>

\* The sync raised: main has no handler, the exception ends the process
\* before the completion line.
main_raised ==
  /\ cli_pc \in {"sync_1", "sync_2"}
  /\ pc = "raised"
  /\ sub_syncs' = Append(sub_syncs, SubSync)
  /\ cli_pc' = "exited"
  /\ exit_code' = 1
  /\ UNCHANGED <<argv, stdout, syncVars, clientVars, rerunVars, ctorVars, toolVars>>

\* The sync returned (main drops the value): the quick mode goes on to its
\* second sync; otherwise lines 50-51, the completion line, and the process
\* ends.
main_returned ==
  /\ cli_pc \in {"sync_1", "sync_2"}
  /\ pc = "returned"
  /\ sub_syncs' = Append(sub_syncs, SubSync)
  /\ pc' = "idle"
  /\ IF argv[1] = "quick" /\ cli_pc = "sync_1"
     THEN /\ cli_pc' = "sync_2"
          /\ UNCHANGED <<stdout, exit_code>>
     ELSE /\ cli_pc' = "exited"
          /\ stdout' = Append(stdout, "Sync complete!")
          /\ exit_code' = 0
  /\ UNCHANGED <<argv, top, args, leaderboards, rank_levels, i, all_stats, count, j,
                 results, sync_results, ret, events, anomalies, utcnow, logged,
                 tables, clientVars, rerunVars, ctorVars, toolVars>>

CliNext ==
  \/ \E a \in CliArgs : main(a)
  \/ main_quick_civ_stats
  \/ main_quick_leaderboard
  \/ main_full
  \/ main_civ_stats
  \/ main_leaderboard
  \/ sync_civ_meta_stats_pair
  \/ sync_civ_meta_stats_upsert
  \/ sync_all_leaderboards_step
  \/ sync_all_leaderboards_return
  \/ main_returned
  \/ main_raised

CliSpec == CliInit /\ [][CliNext]_vars

(***************************************************************************)
(* SyncService._normalize_civ_id called by itself on one slug.             *)
(***************************************************************************)
\* Longest slug made up from SlugAlphabet.
MaxSlugLen == 3
SlugAlphabet == {"a", "-", "_"}
Strings(alphabet, n) == UNION {[1..k -> alphabet] : k \in 0..n}
TableSlugs == {p[1] : p \in civ_map}
Slugs ==
  TableSlugs \cup Strings(SlugAlphabet, MaxSlugLen) \cup {SNewCiv.civ_slug, Null}

NormalizeInit ==
  /\ InitService
  /\ InitClient(MaxDelay)
  /\ InitCaller
  /\ InitCtor(Configured)
  /\ InitCli
  /\ InitGenerator(NoFiles)
  /\ \E slug \in Slugs : InitNormalize(slug)

_normalize_civ_id ==
  /\ norm_pc = "idle"
  /\ IF normalize_civ_id_raises(civ_slug)
     THEN norm_pc' = "raised" /\ civ_id' = civ_id
     ELSE norm_pc' = "returned" /\ civ_id' = normalize_civ_id(civ_slug)
  /\ UNCHANGED <<civ_slug, genVars, syncVars, clientVars, rerunVars, ctorVars, cliVars>>

NormalizeNext == _normalize_civ_id

NormalizeSpec == NormalizeInit /\ [][NormalizeNext]_vars

(***************************************************************************)
(* docs/generate_import_sql.py: the script that turns the *-unified.json   *)
(* files into complete_import.sql. A file is known by the civilization in  *)
(* its name; identifiers and civilization names are TLA+ strings, the      *)
(* texts that escape_sql takes apart are sequences of characters. The      *)
(* output is the sequence of statements written, one record a statement.   *)
(***************************************************************************)
CIV_ID_MAP ==
  [abbasid |-> "abbasid", ayyubids |-> "ayyubids", byzantines |-> "byzantines",
   chinese |-> "chinese", delhi |-> "delhi", english |-> "english",
   french |-> "french", goldenhorde |-> "golden_horde", hre |-> "hre",
   japanese |-> "japanese", jeannedarc |-> "jeanne_darc", lancaster |-> "lancaster",
   macedonian |-> "macedonian", malians |-> "malians", mongols |-> "mongols",
   orderofthedragon |-> "order_of_the_dragon", ottomans |-> "ottomans",
   rus |-> "rus", sengoku |-> "sengoku", templar |-> "templar",
   tughlaq |-> "tughlaq", zhuxi |-> "zhuxi"]

CIV_NAME_MAP ==
  [abbasid |-> "Abbasid Dynasty", ayyubids |-> "Ayyubids", byzantines |-> "Byzantines",
   chinese |-> "Chinese", delhi |-> "Delhi Sultanate", english |-> "English",
   french |-> "French", goldenhorde |-> "Golden Horde", hre |-> "Holy Roman Empire",
   japanese |-> "Japanese", jeannedarc |-> "Jeanne d'Arc",
   lancaster |-> "House of Lancaster", macedonian |-> "Macedonian Dynasty",
   malians |-> "Malians", mongols |-> "Mongols",
   orderofthedragon |-> "Order of the Dragon", ottomans |-> "Ottomans",
   rus |-> "Rus", sengoku |-> "Sengoku Daimyo", templar |-> "Knights Templar",
   tughlaq |-> "Tughlaq Dynasty", zhuxi |-> "Zhu Xi's Legacy"]

\* The slice [:1000] of escape_sql
TruncateAt == 1000

Quote == "'"
Backslash == "\\"

\* text.replace(c, c + c), the string split in halves to keep recursion flat
RECURSIVE Doubled(_, _)
Doubled(s, c) ==
  IF Len(s) = 0 THEN s
  ELSE IF Len(s) = 1 THEN (IF s[1] = c THEN <<c, c>> ELSE s)
  ELSE LET h == Len(s) \div 2
       IN Doubled(SubSeq(s, 1, h), c) \o Doubled(SubSeq(s, h + 1, Len(s)), c)

\* text[:n]
Take(s, n) == SubSeq(s, 1, Min(Len(s), n))

\* isinstance(text, str), JSON null being the value that is not a string
IsStr(text) == text # Null

escape_sql(text) ==
  IF ~IsStr(text) THEN EmptyStr
  ELSE Take(Doubled(Doubled(text, Quote), Backslash), TruncateAt)

\* sorted(glob.glob(...)): the paths used here, in string order
PathOrder == <<"english", "goldenhorde", "newciv">>
Position(path) == CHOOSE k \in 1..Len(PathOrder) : PathOrder[k] = path
sorted(paths) ==
  CHOOSE q \in [1..Cardinality(paths) -> paths] :
    \A a, b \in 1..Cardinality(paths) : a < b => Position(q[a]) < Position(q[b])

\* The records a pair of loops (for file_path ...: for unit in units) goes
\* through, in order, each with the civ_id_raw of its file.
RECURSIVE Records(_, _)
Records(directory, paths) ==
  IF paths = <<>> THEN <<>>
  ELSE LET units == directory[Head(paths)]
       IN [k \in 1..Len(units) |-> [civ_id_raw |-> Head(paths), unit |-> units[k]]]
            \o Records(directory, Tail(paths))

BaseTable(kind) == CASE kind = "units" -> "base_units"
                     [] kind = "buildings" -> "base_buildings"
                     [] kind = "technologies" -> "base_technologies"
CivTable(kind) == CASE kind = "units" -> "civ_units"
                    [] kind = "buildings" -> "civ_buildings"
                    [] kind = "technologies" -> "civ_technologies"
TypeOf(kind) == CASE kind = "units" -> "unit"
                  [] kind = "buildings" -> "building"
                  [] kind = "technologies" -> "technology"

\* The INSERT INTO base_* statement of one record
BaseInsert(kind, unit) ==
  [statement |-> "INSERT", table |-> BaseTable(kind),
   id |-> Get(unit, "id", ""),
   name |-> escape_sql(Get(unit, "name", EmptyStr)),
   description |-> escape_sql(Get(unit, "description", EmptyStr)),
   type |-> TypeOf(kind),
   icon_url |-> <<"https://aoe4world.com/img/", kind, "/", Get(unit, "id", ""), ".png">>]

\* The base loop writing every record, seen before or not
RECURSIVE base_inserts_all(_, _, _)
base_inserts_all(records, seen, kind) ==
  IF records = <<>> THEN <<seen, <<>>>>
  ELSE LET unit == Head(records).unit
           unit_id == Get(unit, "id", "")
           rest == base_inserts_all(Tail(records), seen \cup {unit_id}, kind)
       IN <<rest[1], <<BaseInsert(kind, unit)>> \o rest[2]>>

\* The base loop: <<base_units at the end, the statements written>>
RECURSIVE base_inserts(_, _, _)
base_inserts(records, seen, kind) ==
  IF records = <<>> THEN <<seen, <<>>>>
  ELSE LET unit == Head(records).unit
           unit_id == Get(unit, "id", "")
       IN IF unit_id = "" \/ unit_id \in seen
          THEN base_inserts(Tail(records), seen, kind)
          ELSE LET rest == base_inserts(Tail(records), seen \cup {unit_id}, kind)
               IN <<rest[1], <<BaseInsert(kind, unit)>> \o rest[2]>>

\* str(unit.get('unique', False)).lower()
unique_of(unit) == IF Get(unit, "unique", FALSE) THEN "true" ELSE "false"

\* Gold alone, the special resources left out
cost_gold_alone(costs) == Get(costs, "gold", 0)

\* oliveoil and vizier count as gold equivalent
cost_gold(costs) ==
  Get(costs, "gold", 0) + Get(costs, "oliveoil", 0) + Get(costs, "vizier", 0)

\* The INSERT INTO civ_units / civ_buildings statement of one record
civ_variation_insert(kind, civ_id_raw, unit) ==
  LET first_var == unit.variations[1]
      costs == Get(first_var, "costs", EmptyDict)
      movement == Get(first_var, "movement", EmptyDict)
      columns ==
        [statement |-> "INSERT", table |-> CivTable(kind),
         civ_id |-> Get(CIV_ID_MAP, civ_id_raw, civ_id_raw),
         id |-> unit.id,
         unique_to_civ |-> unique_of(unit),
         age |-> Get(first_var, "age", 1),
         cost_food |-> Get(costs, "food", 0),
         cost_wood |-> Get(costs, "wood", 0),
         cost_stone |-> Get(costs, "stone", 0),
         cost_gold |-> cost_gold(costs),
         build_time |-> Get(costs, "time", 0),
         hitpoints |-> Get(first_var, "hitpoints", 0)]
  IN IF kind = "units"
     THEN [c \in DOMAIN columns \cup {"movement_speed"} |->
             IF c = "movement_speed"
             THEN (IF DOMAIN movement # {} THEN Get(movement, "speed", 0) ELSE 0)
             ELSE columns[c]]
     ELSE columns

\* The INSERT INTO civ_technologies statement of one record
civ_technology_insert(civ_id_raw, tech) ==
  LET costs == Get(tech, "costs", EmptyDict)
  IN [statement |-> "INSERT", table |-> "civ_technologies",
      civ_id |-> Get(CIV_ID_MAP, civ_id_raw, civ_id_raw),
      id |-> tech.id,
      unique_to_civ |-> unique_of(tech),
      age |-> Get(tech, "age", "NULL"),
      cost_food |-> Get(costs, "food", 0),
      cost_wood |-> Get(costs, "wood", 0),
      cost_stone |-> Get(costs, "stone", 0),
      cost_gold |-> cost_gold(costs),
      research_time |-> Get(costs, "time", 0)]

\* if not unit_id or not unit.get('variations'): continue
\* (technologies: if not tech_id: continue)
Mapped(kind, unit) ==
  /\ Get(unit, "id", "") # ""
  /\ kind # "technologies" => Get(unit, "variations", <<>>) # <<>>

\* The mapping loop: the statements written
RECURSIVE civ_inserts(_, _)
civ_inserts(records, kind) ==
  IF records = <<>> THEN <<>>
  ELSE LET r == Head(records)
       IN (IF ~Mapped(kind, r.unit) THEN <<>>
           ELSE IF kind = "technologies"
                THEN <<civ_technology_insert(r.civ_id_raw, r.unit)>>
                ELSE <<civ_variation_insert(kind, r.civ_id_raw, r.unit)>>)
          \o civ_inserts(Tail(records), kind)

Delete(table) == [statement |-> "DELETE", table |-> table]

\* The INSERT INTO civilizations statement of one file
CivilizationInsert(civ_id_raw, civ_data) ==
  [statement |-> "INSERT", table |-> "civilizations",
   id |-> Get(CIV_ID_MAP, civ_id_raw, civ_id_raw),
   name |-> Get(CIV_NAME_MAP, civ_id_raw, Get(civ_data, "name", "")),
   description |-> escape_sql(Get(civ_data, "description", EmptyStr)),
   overview |-> LET overview_raw == Get(civ_data, "overview", EmptyStr)
                IN IF IsStr(overview_raw) THEN escape_sql(overview_raw) ELSE EmptyStr]

GenUnchanged == <<syncVars, clientVars, rerunVars, ctorVars, cliVars, normVars>>

write_header ==
  /\ gen_pc = "start"
  /\ output' = <<Delete("civ_technologies"), Delete("civ_buildings"),
                 Delete("civ_units"), Delete("base_technologies"),
                 Delete("base_buildings"), Delete("base_units"),
                 Delete("civilizations")>>
  /\ gen_pc' = "civilizations"
  /\ UNCHANGED <<data_files, base_units, base_buildings, base_technologies, GenUnchanged>>

import_civilizations ==
  /\ gen_pc = "civilizations"
  /\ LET civ_files == sorted(DOMAIN data_files.civilizations)
     IN output' = output \o
          [k \in 1..Len(civ_files) |->
             CivilizationInsert(civ_files[k], data_files.civilizations[civ_files[k]])]
  /\ gen_pc' = "base_units"
  /\ UNCHANGED <<data_files, base_units, base_buildings, base_technologies, GenUnchanged>>

import_base_units ==
  /\ gen_pc = "base_units"
  /\ LET unit_files == sorted(DOMAIN data_files.units)
         done == base_inserts(Records(data_files.units, unit_files), {}, "units")
     IN base_units' = done[1] /\ output' = output \o done[2]
  /\ gen_pc' = "civ_units"
  /\ UNCHANGED <<data_files, base_buildings, base_technologies, GenUnchanged>>

import_civ_units ==
  /\ gen_pc = "civ_units"
  /\ LET unit_files == sorted(DOMAIN data_files.units)
     IN output' = output \o civ_inserts(Records(data_files.units, unit_files), "units")
  /\ gen_pc' = "base_buildings"
  /\ UNCHANGED <<data_files, base_units, base_buildings, base_technologies, GenUnchanged>>

import_base_buildings ==
  /\ gen_pc = "base_buildings"
  /\ LET building_files == sorted(DOMAIN data_files.buildings)
         done == base_inserts(Records(data_files.buildings, building_files), {},
                              "buildings")
     IN base_buildings' = done[1] /\ output' = output \o done[2]
  /\ gen_pc' = "civ_buildings"
  /\ UNCHANGED <<data_files, base_units, base_technologies, GenUnchanged>>

import_civ_buildings ==
  /\ gen_pc = "civ_buildings"
  /\ LET building_files == sorted(DOMAIN data_files.buildings)
     IN output' = output \o
          civ_inserts(Records(data_files.buildings, building_files), "buildings")
  /\ gen_pc' = "base_technologies"
  /\ UNCHANGED <<data_files, base_units, base_buildings, base_technologies, GenUnchanged>>

import_base_technologies ==
  /\ gen_pc = "base_technologies"
  /\ LET tech_files == sorted(DOMAIN data_files.technologies)
         done == base_inserts(Records(data_files.technologies, tech_files), {},
                              "technologies")
     IN base_technologies' = done[1] /\ output' = output \o done[2]
  /\ gen_pc' = "civ_technologies"
  /\ UNCHANGED <<data_files, base_units, base_buildings, GenUnchanged>>

import_civ_technologies ==
  /\ gen_pc = "civ_technologies"
  /\ LET tech_files == sorted(DOMAIN data_files.technologies)
     IN output' = output \o
          civ_inserts(Records(data_files.technologies, tech_files), "technologies")
  /\ gen_pc' = "close"
  /\ UNCHANGED <<data_files, base_units, base_buildings, base_technologies, GenUnchanged>>

\* output.close()
close ==
  /\ gen_pc = "close"
  /\ gen_pc' = "done"
  /\ UNCHANGED <<data_files, output, base_units, base_buildings, base_technologies,
                 GenUnchanged>>

(***************************************************************************)
(* The files the script is run on.                                          *)
(***************************************************************************)
\* Most records in one file.
MaxRecords == 2
\* Most characters after the padding of a text.
MaxSuffix == 3

UnitIds == {"", "archer", "knight"}
CostChannels == {"food", "wood", "stone", "gold", "oliveoil", "vizier"}
CostValues == {5, 20, 100}
CostStructs == UNION {[present -> CostValues] : present \in SUBSET CostChannels}
SomeCosts == [food |-> 20, gold |-> 100, time |-> 30]

Entity(id, name, description, costs) ==
  [id |-> id, name |-> name, description |-> description,
   variations |-> <<[costs |-> costs, age |-> 2, hitpoints |-> 100,
                     movement |-> [speed |-> 1]]>>,
   costs |-> costs, age |-> 2]

\* Files whose records share identifiers; a name tells where the record stood.
NameAt(path, k) == <<path, "#", ToString(k)>>
\* The first and the last file hold any identifiers, the one between them,
\* where there is one, holds these.
IdLists == Strings(UnitIds, MaxRecords)
MiddleIds == <<"archer", "knight">>
IdsOf(ids, path) == IF path = "goldenhorde" THEN MiddleIds ELSE ids[path]
DedupDirs ==
  { [path \in DOMAIN ids \cup middle |->
       [k \in 1..Len(IdsOf(ids, path)) |->
          Entity(IdsOf(ids, path)[k], NameAt(path, k), EmptyStr, SomeCosts)]] :
    ids \in UNION {[paths -> IdLists] : paths \in SUBSET {"english", "newciv"}},
    middle \in {{}, {"goldenhorde"}} }

\* One record for every cost structure, and one without variations or costs
CostDirs ==
  { [english |-> <<Entity("archer", <<"A">>, EmptyStr, costs)>>] : costs \in CostStructs }
    \cup { [english |-> <<[id |-> "wonder", name |-> <<"W">>]>>] }

\* One record for every text: padding up to the slice, then a few characters
TextAlphabet == {"a", Quote, Backslash}
Pads == {0, TruncateAt - 2, TruncateAt - 1, TruncateAt}
Texts ==
  { [k \in 1..n |-> "a"] \o suffix :
      n \in Pads, suffix \in Strings(TextAlphabet, MaxSuffix) }
TextDirs == { [english |-> <<Entity("archer", text, Null, SomeCosts)>>] : text \in Texts }

\* The same records in the three directories, and a civilization for each file
Files(directory) ==
  [civilizations |->
     [path \in DOMAIN directory |-> [name |-> path, description |-> <<"d", Quote>>]],
   units |-> directory, buildings |-> directory, technologies |-> directory]

GenInit ==
  /\ InitService
  /\ InitClient(MaxDelay)
  /\ InitCaller
  /\ InitCtor(Configured)
  /\ InitCli
  /\ InitNormalize(EmptyStr)
  /\ \E directory \in DedupDirs \cup CostDirs \cup TextDirs :
       InitGenerator(Files(directory))

GenNext ==
  \/ write_header
  \/ import_civilizations
  \/ import_base_units
  \/ import_civ_units
  \/ import_base_buildings
  \/ import_civ_buildings
  \/ import_base_technologies
  \/ import_civ_technologies
  \/ close

GenSpec == GenInit /\ [][GenNext]_vars

(***************************************************************************)
(* AoE4WorldAPIClient on its clock.                                        *)
(***************************************************************************)
LastTwo(s) == IF Len(s) > 2 THEN Tail(s) ELSE s

\* A slip: the sleep is left out.
RateLimitSleepNever(current_time) == 0

\* _rate_limit, lines 32-36: how long it sleeps when time.time() is current_time
RateLimitSleep(current_time) ==
  IF current_time - last_request_time < rate_limit_delay
  THEN rate_limit_delay - (current_time - last_request_time)
  ELSE 0

\* A slip: last_request_time is given the time read before the sleep.
RateLimitedStampFirst(req, late) ==
  LET stamped == now + RateLimitSleep(now) + late
  IN  /\ stamped <= EndOfTime
      /\ last_request_time' = now
      /\ stamps' = LastTwo(Append(stamps, now))
      /\ now' = stamped
      /\ sent' = req
      /\ outcome' = "none"
      /\ steps' = <<"rate_limit">>
      /\ cpc' = "get"

\* _make_request, line 51: _rate_limit sleeps, then stamps last_request_time
\* with the time it reads next (time.sleep returns `late` after the time asked
\* for, never before).  It is the first step of the operation, which goes on
\* with the GET of req.
RateLimited(req, late) ==
  LET stamped == now + RateLimitSleep(now) + late
  IN  /\ stamped <= EndOfTime
      /\ last_request_time' = stamped
      /\ stamps' = LastTwo(Append(stamps, stamped))
      /\ now' = stamped
      /\ sent' = req
      /\ outcome' = "none"
      /\ steps' = <<"rate_limit">>
      /\ cpc' = "get"

make_request(req) ==
  /\ cpc = "idle"
  /\ \E late \in 0..MaxOversleep : RateLimited(req, late)
  /\ UNCHANGED <<rate_limit_delay, gets, offClient>>

\* A slip: a GET that failed is tried once more, at once.
RespondedRetry(duration, ok) ==
  /\ now + duration <= EndOfTime
  /\ gets' = LastTwo(Append(gets, [started |-> now, ended |-> now + duration,
                                   ok |-> ok]))
  /\ now' = now + duration
  /\ steps' = Append(steps, "get")
  /\ IF ~ok /\ Len(steps) = 1
     THEN outcome' = "none" /\ cpc' = "get"
     ELSE outcome' = (IF ok THEN "return" ELSE "raise") /\ cpc' = "idle"

\* _make_request, lines 53-57: the GET takes `duration`; raise_for_status
\* raises unless the status is 2xx, else the decoded body is returned.
Responded(duration, ok) ==
  /\ now + duration <= EndOfTime
  /\ gets' = LastTwo(Append(gets, [started |-> now, ended |-> now + duration,
                                   ok |-> ok]))
  /\ now' = now + duration
  /\ steps' = Append(steps, "get")
  /\ outcome' = IF ok THEN "return" ELSE "raise"
  /\ cpc' = "idle"

session_get ==
  /\ cpc = "get"
  /\ \E duration \in 0..MaxDuration, ok \in BOOLEAN : Responded(duration, ok)
  /\ UNCHANGED <<rate_limit_delay, last_request_time, stamps, sent, op, offClient>>

\* Arguments of the client's operations.
ClientLeaderboards == { "rm_solo" }
ClientRankLevels == { "all" }
ClientCounts == { 10, 200, 201 }
ClientPages == { 1, 2 }
ClientIds == { 101 }
ClientQueries == { "alice" }

get_civ_stats(leaderboard, rank_level) ==
  /\ op' = "get_civ_stats"
  /\ make_request(get_civ_stats_request(leaderboard, rank_level))

get_leaderboard(leaderboard, n, page) ==
  /\ op' = "get_leaderboard"
  /\ make_request(get_leaderboard_request(leaderboard, n, page))

get_top_players(leaderboard, n) ==
  /\ op' = "get_top_players"
  /\ make_request(get_top_players_request(leaderboard, n))

get_player(player_id) ==
  /\ op' = "get_player"
  /\ make_request(get_player_request(player_id))

search_players(query) ==
  /\ op' = "search_players"
  /\ make_request(search_players_request(query))

get_player_games(player_id, n, page) ==
  /\ op' = "get_player_games"
  /\ make_request(get_player_games_request(player_id, n, page))

get_game(game_id) ==
  /\ op' = "get_game"
  /\ make_request(get_game_request(game_id))

get_map_stats(leaderboard) ==
  /\ op' = "get_map_stats"
  /\ make_request(get_map_stats_request(leaderboard))

\* Time passes between two operations.
Pass ==
  /\ cpc = "idle"
  /\ now < EndOfTime
  /\ now' = now + 1
  /\ UNCHANGED <<rate_limit_delay, last_request_time, stamps, gets, sent, outcome,
                 cpc, op, steps, offClient>>

ClientNext ==
  \/ \E lb \in ClientLeaderboards, rl \in ClientRankLevels : get_civ_stats(lb, rl)
  \/ \E lb \in ClientLeaderboards, n \in ClientCounts, p \in ClientPages :
       get_leaderboard(lb, n, p)
  \/ \E lb \in ClientLeaderboards, n \in ClientCounts : get_top_players(lb, n)
  \/ \E id \in ClientIds : get_player(id)
  \/ \E q \in ClientQueries : search_players(q)
  \/ \E id \in ClientIds, n \in ClientCounts, p \in ClientPages :
       get_player_games(id, n, p)
  \/ \E id \in ClientIds : get_game(id)
  \/ \E lb \in ClientLeaderboards : get_map_stats(lb)
  \/ session_get
  \/ Pass

ClientSpec == ClientInit /\ [][ClientNext]_vars

TypeOK == pc \in {"idle", "sync_civ_meta_stats", "sync_all_leaderboards",
                  "get_all_civ_stats", "returned", "raised"}

(***************************************************************************)
(* What a call did, read off its events.                                   *)
(***************************************************************************)
IsStatsGet(e) == e.kind = "GET" /\ e.endpoint[1] = "/stats/"
IsPageGet(e) == e.kind = "GET" /\ e.endpoint[1] = "/leaderboards/"
IsUpsertOf(e, table) == e.kind = "UPSERT" /\ e.table = table
IsCivUpsert(e) == IsUpsertOf(e, "civilization_meta_stats")
IsPlayerUpsert(e) == IsUpsertOf(e, "leaderboard_players")

CivUpserts == SelectSeq(events, IsCivUpsert)
PlayerUpserts == SelectSeq(events, IsPlayerUpsert)
PageGets == SelectSeq(events, IsPageGet)

\* The list an optional argument stands for
ListOr(arg, default) == IF arg = None THEN default ELSE arg

\* The pairs of two lists in the order of the nested loops
PairsOf(lbs, rls) ==
  [k \in 1..(Len(lbs) * Len(rls)) |->
     <<lbs[((k - 1) \div Len(rls)) + 1], rls[((k - 1) % Len(rls)) + 1]>>]

\* The pairs a call of sync_civ_meta_stats, sync_all or get_all_civ_stats is
\* to fetch
RequestedPairs ==
  IF top = "sync_civ_meta_stats"
  THEN PairsOf(ListOr(args[1], DefaultLeaderboards), ListOr(args[2], DefaultRankLevels))
  ELSE PairsOf(DefaultLeaderboards, DefaultRankLevels)

\* The pair a GET of /stats/{leaderboard}?rank_level= asks for
PairAsked(e) == <<e.endpoint[2], e.params.rank_level>>

\* The records the API returned to a GET that succeeded
Returned(e) ==
  IF e.resp.status = "ok" THEN Get(e.resp.json, "civilizations", <<>>) ELSE <<>>

RECURSIVE ReturnedCount(_)
ReturnedCount(es) ==
  IF es = <<>> THEN 0
  ELSE (IF IsStatsGet(Head(es)) THEN Len(Returned(Head(es))) ELSE 0)
       + ReturnedCount(Tail(es))

(***************************************************************************)
(* C1: in sync_civ_meta_stats, fetches that raise do not stop the loop:    *)
(* every requested pair is fetched, in order; the batch upserted holds one *)
(* record for each record the API returned to a fetch that succeeded, and  *)
(* none for a fetch that failed; the count returned is the number of       *)
(* records of the successful fetches.                                      *)
(***************************************************************************)
C1_SuccessfulPairsSynced ==
  (top = "sync_civ_meta_stats" /\ pc = "returned") =>
    /\ Len(events) >= Len(RequestedPairs)
    /\ \A k \in 1..Len(RequestedPairs) :
         IsStatsGet(events[k]) /\ PairAsked(events[k]) = RequestedPairs[k]
    /\ ret = ReturnedCount(events)
    /\ \A k \in 1..Len(events) :
         IsCivUpsert(events[k]) => Len(events[k].rows) = ReturnedCount(events)

(***************************************************************************)
(* C2: a run of sync_civ_meta_stats (alone or as the first part of         *)
(* sync_all) issues at most one upsert of civilization_meta_stats; the     *)
(* upsert comes after a fetch of every requested pair, carries the whole   *)
(* accumulated list, and is not issued for an empty list; the count        *)
(* returned is the number of records of the batch.                         *)
(***************************************************************************)
C2_OneBatchUpsert ==
  (top \in {"sync_civ_meta_stats", "sync_all"}) =>
    /\ Len(CivUpserts) <= 1
    /\ \A p \in 1..Len(events) :
         IsCivUpsert(events[p]) =>
           /\ p = Len(RequestedPairs) + 1
           /\ \A q \in 1..(p - 1) :
                IsStatsGet(events[q]) /\ PairAsked(events[q]) = RequestedPairs[q]
           /\ events[p].rows = all_stats
           /\ events[p].rows # <<>>
    /\ (top = "sync_civ_meta_stats" /\ pc = "returned") =>
         IF all_stats = <<>>
         THEN CivUpserts = <<>> /\ ret = 0
         ELSE Len(CivUpserts) = 1 /\ ret = Len(CivUpserts[1].rows)

\* a sync of several pairs has returned after its one upsert
C2_Witness ==
  /\ top = "sync_civ_meta_stats"
  /\ pc = "returned"
  /\ Len(RequestedPairs) > 1
  /\ Len(CivUpserts) = 1
  /\ ret > 1

(***************************************************************************)
(* C3: sync_civ_meta_stats called with an empty leaderboards list or an    *)
(* empty rank_levels list keeps the empty list (the default replaces None  *)
(* only), makes no GET and no upsert, and returns 0.                       *)
(***************************************************************************)
C3_EmptyListsNoWork ==
  (top = "sync_civ_meta_stats" /\ (args[1] = <<>> \/ args[2] = <<>>)) =>
    /\ args[1] = <<>> => leaderboards = <<>>
    /\ args[2] = <<>> => rank_levels = <<>>
    /\ events = <<>>
    /\ pc \in {"sync_civ_meta_stats", "returned"}
    /\ pc = "returned" => ret = 0

\* the call with no leaderboards and the default rank levels has returned
C3_Witness ==
  /\ top = "sync_civ_meta_stats"
  /\ pc = "returned"
  /\ args = <<<<>>, None>>
  /\ ret = 0
  /\ events = <<>>

(***************************************************************************)
(* C4 as claimed: in sync_leaderboard and in sync_all an upsert that       *)
(* raises is not caught, the call aborts and raises.                       *)
(***************************************************************************)
C4_UpsertErrorAborts ==
  (top \in {"sync_leaderboard", "sync_all"}) =>
    \A k \in 1..Len(events) :
      (events[k].kind = "UPSERT" /\ ~events[k].ok) => pc = "raised"

(***************************************************************************)
(* C4 as amended: an upsert of civilization_meta_stats that raises is not  *)
(* caught: it is the last thing sync_civ_meta_stats or sync_all does, and  *)
(* the call raises; nothing else makes a sync raise.  An upsert of         *)
(* leaderboard_players that raises is caught by sync_leaderboard, which    *)
(* returns 0: sync_all_leaderboards and sync_all record 0 for that         *)
(* leaderboard and go on.                                                  *)
(***************************************************************************)
C4_UpsertErrorPolicy ==
  /\ \A k \in 1..Len(events) :
       (IsCivUpsert(events[k]) /\ ~events[k].ok) =>
         /\ pc = "raised"
         /\ k = Len(events)
         /\ top \in {"sync_civ_meta_stats", "sync_all"}
  /\ pc = "raised" =>
       /\ events # <<>>
       /\ IsCivUpsert(events[Len(events)])
       /\ ~events[Len(events)].ok
  /\ \A k \in 1..Len(events) :
       (IsPlayerUpsert(events[k]) /\ ~events[k].ok) =>
         LET leaderboard == events[k].rows[1].leaderboard
         IN  /\ pc # "raised"
             /\ top = "sync_leaderboard" => (pc = "returned" /\ ret = 0)
             /\ top \in {"sync_all_leaderboards", "sync_all"} =>
                  /\ results[leaderboard] = 0
                  /\ (pc = "returned" /\ top = "sync_all_leaderboards") =>
                       ret[leaderboard] = 0
                  /\ (pc = "returned" /\ top = "sync_all") =>
                       ret.leaderboards[leaderboard] = 0

\* sync_all has returned although an upsert of leaderboard_players raised
C4_Witness ==
  /\ top = "sync_all"
  /\ pc = "returned"
  /\ \E k \in 1..Len(events) : IsPlayerUpsert(events[k]) /\ ~events[k].ok

(***************************************************************************)
(* C5 as claimed: sync_leaderboard(leaderboard, n) issues exactly one GET, *)
(* of the leaderboard page with count = n, upserts one record per player   *)
(* of the page (none for an empty page), keyed by (player_id,              *)
(* leaderboard), and returns the number of records.                        *)
(***************************************************************************)
\* The players of the page the API returned
PagePlayers(e) ==
  IF e.resp.status = "ok" THEN Get(e.resp.json, "players", <<>>) ELSE <<>>

\* One record per player, keyed by the player's id and the leaderboard
RecordsOfPlayers(rows, players, leaderboard) ==
  /\ Len(rows) = Len(players)
  /\ \A k \in 1..Len(rows) :
       /\ rows[k].player_id = players[k].profile_id
       /\ rows[k].leaderboard = leaderboard

C5_OnePageCountN ==
  (top = "sync_leaderboard" /\ pc = "returned") =>
    /\ Len(events) >= 1
    /\ IsPageGet(events[1])
    /\ \A k \in 2..Len(events) : events[k].kind # "GET"
    /\ events[1].endpoint[2] = args[1]
    /\ events[1].params.count = args[2]
    /\ LET players == PagePlayers(events[1])
       IN  /\ ret = Len(players)
           /\ IF players = <<>> THEN Len(events) = 1
              ELSE /\ Len(events) = 2
                   /\ IsPlayerUpsert(events[2])
                   /\ RecordsOfPlayers(events[2].rows, players, args[1])

(***************************************************************************)
(* C5 as amended: sync_leaderboard(leaderboard, n) issues exactly one GET, *)
(* of page 1 of the leaderboard with count = min(n, 200); when the GET     *)
(* succeeds it upserts one record per player of the page (none for an      *)
(* empty page), keyed by (player_id, leaderboard); it returns the number   *)
(* of records, or 0 when the GET or the upsert raised.                     *)
(***************************************************************************)
C5_OnePageCountCapped ==
  (top = "sync_leaderboard" /\ pc = "returned") =>
    /\ Len(events) >= 1
    /\ IsPageGet(events[1])
    /\ \A k \in 2..Len(events) : events[k].kind # "GET"
    /\ events[1].endpoint[2] = args[1]
    /\ events[1].params.count = (IF args[2] > 200 THEN 200 ELSE args[2])
    /\ events[1].params.page = 1
    /\ LET players == PagePlayers(events[1])
       IN  IF players = <<>>
           THEN Len(events) = 1 /\ ret = 0
           ELSE /\ Len(events) = 2
                /\ IsPlayerUpsert(events[2])
                /\ RecordsOfPlayers(events[2].rows, players, args[1])
                /\ ret = (IF events[2].ok THEN Len(players) ELSE 0)

\* a sync of more players than one page holds has upserted the page it got
C5_Witness ==
  /\ top = "sync_leaderboard"
  /\ pc = "returned"
  /\ args[2] > 200
  /\ Len(events) = 2
  /\ ret = 2

(***************************************************************************)
(* C7: get_all_civ_stats asks for the 42 pairs of its 6 leaderboards and   *)
(* 7 rank levels, in order, whatever the fetches answer; it never raises;  *)
(* the list it returns holds, for each fetch that succeeded and in the     *)
(* order of the fetches, the records of that fetch, each tagged with the   *)
(* leaderboard and the rank level that were asked for.                     *)
(***************************************************************************)
\* The records of events es, each as <<record, leaderboard, rank_level>>
RECURSIVE ReturnedWithPair(_)
ReturnedWithPair(es) ==
  IF es = <<>> THEN <<>>
  ELSE LET e == Head(es)
           stats == Returned(e)
       IN  [k \in 1..Len(stats) |-> <<stats[k], e.endpoint[2], e.params.rank_level>>]
           \o ReturnedWithPair(Tail(es))

\* stat is record r with the tags of its pair added
TaggedAs(stat, r, leaderboard, rank_level) ==
  /\ stat.leaderboard = leaderboard
  /\ stat.rank_level = rank_level
  /\ \A f \in DOMAIN r : stat[f] = r[f]

C7_AllPairsAttempted ==
  (top = "get_all_civ_stats") =>
    /\ pc # "raised"
    /\ Len(events) <= 42
    /\ \A k \in 1..Len(events) :
         /\ IsStatsGet(events[k])
         /\ PairAsked(events[k]) = PairsOf(DefaultLeaderboards, DefaultRankLevels)[k]
    /\ pc = "returned" =>
         /\ Len(events) = 42
         /\ LET expected == ReturnedWithPair(events)
            IN  /\ Len(ret) = Len(expected)
                /\ \A k \in 1..Len(ret) :
                     TaggedAs(ret[k], expected[k][1], expected[k][2], expected[k][3])

\* all 42 pairs were asked for, one fetch failed, the records of the others
\* are returned
C7_Witness ==
  /\ top = "get_all_civ_stats"
  /\ pc = "returned"
  /\ \E k \in 1..41 : events[k].resp.status # "ok"
  /\ Len(ret) = 41

(***************************************************************************)
(* C8: sync_all_leaderboards syncs each of the 6 leaderboards of its list  *)
(* once, in the order of the list: one GET of each leaderboard's page,     *)
(* whatever happened to the earlier ones; it never raises; it returns a    *)
(* mapping whose keys are the 6 leaderboards, each with the count its sync *)
(* returned (the players upserted, 0 after an error).                      *)
(***************************************************************************)
\* The count the sync of the leaderboard of page GET number k returned: the
\* players of the page, unless the GET or the upsert that follows it failed
SyncedCount(k) ==
  LET es == SelectSeq(events, LAMBDA e : e.kind = "UPSERT" \/ IsPageGet(e))
      p == CHOOSE q \in 1..Len(es) :
             /\ IsPageGet(es[q])
             /\ Len(SelectSeq(SubSeq(es, 1, q), IsPageGet)) = k
      players == PagePlayers(es[p])
  IN  IF p < Len(es) /\ IsPlayerUpsert(es[p + 1]) /\ ~es[p + 1].ok THEN 0
      ELSE Len(players)

C8_EveryLeaderboardSynced ==
  (top = "sync_all_leaderboards") =>
    /\ pc # "raised"
    /\ Len(PageGets) <= 6
    /\ \A k \in 1..Len(PageGets) :
         /\ PageGets[k].endpoint[2] = DefaultLeaderboards[k]
         /\ PageGets[k].params.count = (IF args[1] > 200 THEN 200 ELSE args[1])
    /\ pc = "returned" =>
         /\ Len(PageGets) = 6
         /\ DOMAIN ret = {"rm_solo", "rm_team", "rm_1v1", "rm_2v2", "rm_3v3", "rm_4v4"}
         /\ \A k \in 1..6 : ret[DefaultLeaderboards[k]] = SyncedCount(k)

\* the sync of an earlier leaderboard failed, a later one was synced
C8_Witness ==
  /\ top = "sync_all_leaderboards"
  /\ pc = "returned"
  /\ ret["rm_team"] = 0
  /\ ret["rm_4v4"] > 0
  /\ PageGets[2].resp.status # "ok"

(***************************************************************************)
(* C9: in sync_all every GET of civilization stats and the upsert of       *)
(* civilization_meta_stats come before the first GET of a leaderboard      *)
(* page; the result returned holds the count of meta-stat records, the     *)
(* mapping of the 6 leaderboards to their counts, and total_players, the   *)
(* sum of these counts.                                                    *)
(***************************************************************************)
IsMetaStatsEvent(e) == IsStatsGet(e) \/ IsCivUpsert(e)
IsLeaderboardEvent(e) == IsPageGet(e) \/ IsPlayerUpsert(e)

C9_MetaStatsThenLeaderboards ==
  (top = "sync_all") =>
    /\ \A p \in 1..Len(events) :
         IsLeaderboardEvent(events[p]) =>
           /\ p > 42
           /\ \A q \in 1..42 : IsStatsGet(events[q])
           /\ \A q \in (p + 1)..Len(events) : ~IsMetaStatsEvent(events[q])
           /\ all_stats # <<>> => (IsCivUpsert(events[43]) /\ p > 43)
    /\ pc = "returned" =>
         /\ DOMAIN ret = {"civ_meta_stats", "leaderboards", "total_players"}
         /\ ret.civ_meta_stats = Len(all_stats)
         /\ ret.civ_meta_stats =
              (IF CivUpserts = <<>> THEN 0 ELSE Len(CivUpserts[1].rows))
         /\ DOMAIN ret.leaderboards =
              {"rm_solo", "rm_team", "rm_1v1", "rm_2v2", "rm_3v3", "rm_4v4"}
         /\ \A k \in 1..6 : ret.leaderboards[DefaultLeaderboards[k]] = SyncedCount(k)
         /\ ret.total_players =
              ret.leaderboards["rm_solo"] + ret.leaderboards["rm_team"]
              + ret.leaderboards["rm_1v1"] + ret.leaderboards["rm_2v2"]
              + ret.leaderboards["rm_3v3"] + ret.leaderboards["rm_4v4"]

\* a full sync has returned: meta stats written, players of 6 leaderboards
C9_Witness ==
  /\ top = "sync_all"
  /\ pc = "returned"
  /\ ret.civ_meta_stats > 42
  /\ ret.total_players = 6
  /\ Len(PlayerUpserts) = 6

(***************************************************************************)
(* C6: every request with a count parameter carries a count of at most     *)
(* 200, whatever count the caller passed (get_leaderboard,                 *)
(* get_top_players, get_player_games).                                     *)
(***************************************************************************)
C6_CountAtMost200 ==
  "count" \in DOMAIN sent.params => sent.params.count <= 200

(***************************************************************************)
(* C10: the values _rate_limit gives last_request_time for two             *)
(* consecutive requests of one client differ by at least its               *)
(* rate_limit_delay, whether the earlier request returned or raised.       *)
(***************************************************************************)
C10_StampsApart ==
  Len(stamps) = 2 => stamps[2] - stamps[1] >= rate_limit_delay

\* a request made right after one that raised was held back by the limiter
C10_Witness ==
  /\ cpc = "idle"
  /\ rate_limit_delay > 0
  /\ Len(gets) = 2
  /\ ~gets[1].ok
  /\ gets[1].ended - gets[1].started < rate_limit_delay
  /\ stamps[2] - stamps[1] = rate_limit_delay

(***************************************************************************)
(* C11 as claimed: the limiter's interval runs from the end of the         *)
(* previous request to the start of the next: the GET of a request never   *)
(* starts earlier than rate_limit_delay after the response to the previous *)
(* request was complete, however long the previous request took.           *)
(***************************************************************************)
C11_EndToStart ==
  Len(gets) = 2 => gets[2].started - gets[1].ended >= rate_limit_delay

(***************************************************************************)
(* C11 as amended: the limiter's interval runs from the start of the       *)
(* previous request (the time _rate_limit stamped right before its GET) to *)
(* the start of the next: the GET of a request never starts earlier than   *)
(* rate_limit_delay after the GET of the previous request started, and the *)
(* time the previous request took counts towards the interval.             *)
(***************************************************************************)
C11_StartToStart ==
  /\ Len(gets) = 2 => gets[2].started - gets[1].started >= rate_limit_delay
  /\ (cpc = "idle" /\ Len(gets) >= 1) =>
       gets[Len(gets)].started = stamps[Len(stamps)]

\* the previous request took a while, and the next GET started less than the
\* delay after its response, the delay after its start
C11_Witness ==
  /\ Len(gets) = 2
  /\ gets[1].ended > gets[1].started
  /\ gets[2].started - gets[1].ended < rate_limit_delay
  /\ gets[2].started - gets[1].started = rate_limit_delay

(***************************************************************************)
(* C12: each of the eight single-endpoint operations of the client does    *)
(* the rate-limit step and then exactly one HTTP GET; when the GET fails   *)
(* (a status that is not 2xx, a transport failure) the operation raises    *)
(* without a second GET, and when it succeeds the operation returns.       *)
(***************************************************************************)
C12_OneGetNoRetry ==
  /\ op \in {"none", "get_civ_stats", "get_leaderboard", "get_top_players",
              "get_player", "search_players", "get_player_games", "get_game",
              "get_map_stats"}
  /\ op = "none" => (steps = <<>> /\ gets = <<>>)
  /\ (op # "none" /\ cpc = "get") => (steps = <<"rate_limit">> /\ outcome = "none")
  /\ (op # "none" /\ cpc = "idle") =>
       /\ steps = <<"rate_limit", "get">>
       /\ outcome = (IF gets[Len(gets)].ok THEN "return" ELSE "raise")

\* a request of a player's games failed and was raised to the caller after
\* its one GET
C12_Witness ==
  /\ op = "get_player_games"
  /\ cpc = "idle"
  /\ outcome = "raise"
  /\ steps = <<"rate_limit", "get">>
  /\ ~gets[Len(gets)].ok

(***************************************************************************)
(* C13: when a sync (sync_civ_meta_stats, sync_leaderboard, sync_all) is   *)
(* run again on unchanged upstream data and nothing fails, the row-store   *)
(* holds the same composite keys as after the first run, one row for each, *)
(* and every row has the values it had in all fields but last_updated,     *)
(* which is later than it was.                                             *)
(***************************************************************************)
Keys(table, Key(_)) == { Key(r) : r \in table }
NonTimestamp(r) == [f \in DOMAIN r \ {"last_updated"} |-> r[f]]

SameButLater(old, new, Key(_)) ==
  /\ Keys(new, Key) = Keys(old, Key)
  /\ Cardinality(new) = Cardinality(old)
  /\ Cardinality(new) = Cardinality(Keys(new, Key))
  /\ \A r2 \in new : \E r1 \in old :
       /\ Key(r1) = Key(r2)
       /\ NonTimestamp(r1) = NonTimestamp(r2)
       /\ r2.last_updated > r1.last_updated

C13_RerunIdempotent ==
  (run = 2 /\ pc = "returned") =>
    /\ SameButLater(first.civilization_meta_stats, tables.civilization_meta_stats,
                    CivKey)
    /\ SameButLater(first.leaderboard_players, tables.leaderboard_players, PlayerKey)

\* a full sync has run twice over rows of both tables
C13_Witness ==
  /\ run = 2
  /\ pc = "returned"
  /\ top = "sync_all"
  /\ Cardinality(first.civilization_meta_stats) > 42
  /\ Cardinality(first.leaderboard_players) > 6
  /\ Cardinality(tables.civilization_meta_stats) > 42

(***************************************************************************)
(* What main saw of a sync: its failures and what they contributed.        *)
(***************************************************************************)
FailedGet(e) == e.kind = "GET" /\ e.resp.status # "ok"
FailedUpsert(e) == e.kind = "UPSERT" /\ ~e.ok
SubSyncFailed(s) ==
  \E k \in 1..Len(s.events) : FailedGet(s.events[k]) \/ FailedUpsert(s.events[k])

\* The count sync s gives for the leaderboard, once it has returned
LeaderboardCount(s, leaderboard) ==
  IF s.top = "sync_all" THEN s.ret.leaderboards[leaderboard] ELSE s.ret

\* The failures of sync s that the sync catches are logged and contribute
\* nothing: no record of a pair whose fetch failed is written, and the count
\* of a leaderboard whose fetch or write failed is 0.
CaughtFailuresContributeZero(s) ==
  /\ \A k \in 1..Len(s.events) :
       LET e == s.events[k]
       IN  /\ (FailedGet(e) /\ IsStatsGet(e)) =>
                /\ s.logged >= 1
                /\ \A q \in 1..Len(s.events) :
                     IsCivUpsert(s.events[q]) =>
                       \A n \in 1..Len(s.events[q].rows) :
                         <<s.events[q].rows[n].leaderboard,
                           s.events[q].rows[n].rank_level>> # PairAsked(e)
           /\ (FailedGet(e) /\ IsPageGet(e)) =>
                /\ s.logged >= 1
                /\ ~s.raised => LeaderboardCount(s, e.endpoint[2]) = 0
           /\ (FailedUpsert(e) /\ IsPlayerUpsert(e)) =>
                /\ s.logged >= 1
                /\ ~s.raised => LeaderboardCount(s, e.rows[1].leaderboard) = 0

(***************************************************************************)
(* C14 as claimed: in every mode of the command-line tool a sync that      *)
(* fails, by a fetch error or by a write error of the row-store, is logged *)
(* and contributes zero, and the process still prints the completion line  *)
(* and exits 0.                                                            *)
(***************************************************************************)
C14_FailuresExitZero ==
  (cli_pc = "exited" /\ error = "none") =>
    /\ exit_code = 0
    /\ stdout = <<"Starting sync", "Sync complete!">>
    /\ \A k \in 1..Len(sub_syncs) : CaughtFailuresContributeZero(sub_syncs[k])

(***************************************************************************)
(* C14 as amended: in every mode of the command-line tool a fetch that     *)
(* fails, and a write of leaderboard_players that fails, is logged and     *)
(* contributes zero, and the process goes on, prints the completion line   *)
(* and exits 0.  A write of civilization_meta_stats that fails (modes      *)
(* quick, full and civ-stats) is not caught: the exception leaves main,    *)
(* the process ends with status 1 without the completion line, and the     *)
(* leaderboards that the quick and the full mode sync next are not synced. *)
(***************************************************************************)
C14_ExitPolicy ==
  (cli_pc = "exited" /\ error = "none") =>
    /\ \A k \in 1..Len(sub_syncs) :
         /\ CaughtFailuresContributeZero(sub_syncs[k])
         /\ sub_syncs[k].raised <=>
              (\E q \in 1..Len(sub_syncs[k].events) :
                 LET e == sub_syncs[k].events[q]
                 IN  FailedUpsert(e) /\ IsCivUpsert(e))
         /\ sub_syncs[k].raised =>
              /\ k = Len(sub_syncs)
              /\ \A q \in 1..Len(sub_syncs[k].events) :
                   ~IsLeaderboardEvent(sub_syncs[k].events[q])
    /\ IF \E k \in 1..Len(sub_syncs) : sub_syncs[k].raised
       THEN /\ exit_code = 1
            /\ stdout = <<"Starting sync">>
            /\ argv[1] \in {"quick", "full", "civ-stats"}
            /\ Len(sub_syncs) = 1
       ELSE /\ exit_code = 0
            /\ stdout = <<"Starting sync", "Sync complete!">>
            /\ Len(sub_syncs) = (IF argv[1] = "quick" THEN 2 ELSE 1)

\* the quick mode has ended with status 0 after the fetch of the statistics
\* and the write of the players both failed
C14_Witness ==
  /\ cli_pc = "exited"
  /\ argv[1] = "quick"
  /\ exit_code = 0
  /\ Len(sub_syncs) = 2
  /\ FailedGet(sub_syncs[1].events[1])
  /\ sub_syncs[1].ret = 0
  /\ Len(sub_syncs[2].events) = 2
  /\ FailedUpsert(sub_syncs[2].events[2])
  /\ sub_syncs[2].ret = 0

(***************************************************************************)
(* C18: when the URL or the key is absent, neither passed to the           *)
(* constructor nor set in the environment, the construction of the         *)
(* row-store client raises the configuration error and no connection to    *)
(* the row-store is created; the construction of a SyncService that is     *)
(* given no db_client fails in that situation in the same way.             *)
(***************************************************************************)
NotSet(name) == name \notin DOMAIN environ

C18_MissingConfigRaises ==
  /\ (/\ constructed # <<>>
      /\ constructed[1] = "SupabaseDBClient"
      /\ \/ (constructed[2] = None /\ NotSet("SUPABASE_URL"))
         \/ (constructed[3] = None /\ NotSet("SUPABASE_KEY")))
       => (error = "ValueError" /\ connections = 0 /\ ~db.made)
  /\ (/\ constructed # <<>>
      /\ constructed[1] \in {"SyncService", "create_sync_service"}
      /\ ~constructed[2].made
      /\ NotSet("SUPABASE_URL") \/ NotSet("SUPABASE_KEY"))
       => (error = "ValueError" /\ connections = 0 /\ ~db.made)

\* a SyncService without a db_client was constructed where the URL is set
\* and the key is not, and the construction raised
C18_Witness ==
  /\ constructed # <<>>
  /\ constructed[1] = "SyncService"
  /\ ~constructed[2].made
  /\ ~NotSet("SUPABASE_URL")
  /\ environ["SUPABASE_URL"] = SomeUrl
  /\ NotSet("SUPABASE_KEY")
  /\ error = "ValueError"
  /\ connections = 0

(***************************************************************************)
(* C15: _normalize_civ_id returns the table's value for every slug of the  *)
(* table ('zhu-xis-legacy' gives 'zhuxi', 'golden-horde' gives             *)
(* 'golden_horde'); for a slug that is not in the table it returns the     *)
(* slug with every hyphen turned into an underscore and nothing else       *)
(* changed ('new-civ' gives 'new_civ'). The table goes first.              *)
(***************************************************************************)
ZhuXisLegacy == <<"z","h","u","-","x","i","s","-","l","e","g","a","c","y">>
GoldenHorde == <<"g","o","l","d","e","n","-","h","o","r","d","e">>

C15_TableThenSubstitution ==
  norm_pc = "returned" =>
    /\ civ_slug = ZhuXisLegacy => civ_id = <<"z","h","u","x","i">>
    /\ civ_slug = GoldenHorde
         => civ_id = <<"g","o","l","d","e","n","_","h","o","r","d","e">>
    /\ civ_slug = <<"n","e","w","-","c","i","v">>
         => civ_id = <<"n","e","w","_","c","i","v">>
    /\ civ_slug \in TableSlugs => <<civ_slug, civ_id>> \in civ_map
    /\ civ_slug \notin TableSlugs =>
         /\ Len(civ_id) = Len(civ_slug)
         /\ \A k \in 1..Len(civ_slug) :
              civ_id[k] = IF civ_slug[k] = "-" THEN "_" ELSE civ_slug[k]

\* A table slug whose table value is not what the substitution gives.
C15_Witness ==
  /\ norm_pc = "returned"
  /\ civ_slug = ZhuXisLegacy
  /\ civ_id # Replace(civ_slug, "-", "_")

(***************************************************************************)
(* The statements of the SQL generator, as the claims about it read them.  *)
(***************************************************************************)
Kinds == {"units", "buildings", "technologies"}
BaseStatements(kind) ==
  SelectSeq(output, LAMBDA st : st.statement = "INSERT" /\ st.table = BaseTable(kind))
CivStatements(kind) ==
  SelectSeq(output, LAMBDA st : st.statement = "INSERT" /\ st.table = CivTable(kind))
\* The records of a kind in the order the script reads them
Source(kind) == Records(data_files[kind], sorted(DOMAIN data_files[kind]))

\* Where the run of c that starts at k ends
RunEnd(body, k, c) ==
  CHOOSE m \in k..Len(body) :
    /\ \A q \in k..m : body[q] = c
    /\ m = Len(body) \/ body[m + 1] # c
\* Every c of the body stands in a pair: every run of c has even length.
AllDoubled(body, c) ==
  \A k \in 1..Len(body) :
    (body[k] = c /\ (k = 1 \/ body[k - 1] # c))
      => (RunEnd(body, k, c) - k + 1) % 2 = 0

(***************************************************************************)
(* C16: whatever string escape_sql is given, the literal body it returns   *)
(* has at most 1000 characters, and in it every single quote and every     *)
(* backslash is doubled, so that the quote closing the literal is the      *)
(* first unpaired quote; this also where the slice cuts the escaped text.  *)
(* Read on the name column of the base-table statements.                   *)
(***************************************************************************)
C16_EscapedLiteral ==
  \A kind \in Kinds :
    \A k \in 1..Len(BaseStatements(kind)) :
      LET body == BaseStatements(kind)[k].name
      IN /\ Len(body) <= TruncateAt
         /\ AllDoubled(body, Quote)
         /\ AllDoubled(body, Backslash)

(***************************************************************************)
(* C17: every statement of the unit, building and technology mappings      *)
(* carries as cost_gold the sum of the gold, oliveoil and vizier channels  *)
(* of its record's costs, an absent channel counting 0, and carries food,  *)
(* wood and stone as they are; costs of gold 100, oliveoil 20 and vizier 5 *)
(* give cost_gold 125.                                                     *)
(***************************************************************************)
Channel(costs, c) == IF c \in DOMAIN costs THEN costs[c] ELSE 0
CostsOf(kind, unit) ==
  IF kind = "technologies" THEN Get(unit, "costs", EmptyDict)
  ELSE Get(unit.variations[1], "costs", EmptyDict)
TheExample == [gold |-> 100, oliveoil |-> 20, vizier |-> 5]

C17_GoldEquivalent ==
  \A kind \in Kinds :
    LET written == CivStatements(kind)
        sources == SelectSeq(Source(kind), LAMBDA r : Mapped(kind, r.unit))
    IN written # <<>> =>
         /\ Len(written) = Len(sources)
         /\ \A k \in 1..Len(written) :
              LET costs == CostsOf(kind, sources[k].unit)
              IN /\ written[k].cost_gold =
                      Channel(costs, "gold") + Channel(costs, "oliveoil")
                        + Channel(costs, "vizier")
                 /\ written[k].cost_food = Channel(costs, "food")
                 /\ written[k].cost_wood = Channel(costs, "wood")
                 /\ written[k].cost_stone = Channel(costs, "stone")
                 /\ costs = TheExample => written[k].cost_gold = 125

\* The example went through the three exporters.
C17_Witness ==
  /\ gen_pc = "done"
  /\ \A kind \in Kinds :
       /\ Len(Source(kind)) = 1
       /\ Mapped(kind, Source(kind)[1].unit)
       /\ CostsOf(kind, Source(kind)[1].unit) = TheExample
       /\ Len(CivStatements(kind)) = 1
       /\ CivStatements(kind)[1].cost_gold = 125

(***************************************************************************)
(* C19: for units, buildings and technologies, the base-table INSERTs      *)
(* written carry pairwise different identifiers, none of them empty; once  *)
(* the base loop of a kind is over, a record has its INSERT written if and *)
(* only if its identifier is not empty and no record before it, in sorted  *)
(* file order, has the same identifier.                                    *)
(***************************************************************************)
BaseLoopOver(kind) ==
  CASE kind = "units" -> gen_pc \notin {"start", "civilizations", "base_units"}
    [] kind = "buildings" ->
         gen_pc \in {"civ_buildings", "base_technologies", "civ_technologies",
                     "close", "done"}
    [] kind = "technologies" -> gen_pc \in {"civ_technologies", "close", "done"}

C19_FirstOccurrenceOnly ==
  \A kind \in Kinds :
    LET written == BaseStatements(kind)
        all == Source(kind)
    IN /\ \A a, b \in 1..Len(written) : written[a].id = written[b].id => a = b
       /\ \A a \in 1..Len(written) : written[a].id # ""
       /\ BaseLoopOver(kind) =>
            \A k \in 1..Len(all) :
              LET unit == all[k].unit
                  isFirst == /\ unit.id # ""
                             /\ \A m \in 1..(k - 1) : all[m].unit.id # unit.id
              IN isFirst <=>
                   \E a \in 1..Len(written) :
                     /\ written[a].id = unit.id
                     /\ written[a].name = escape_sql(unit.name)

\* An identifier in two files and twice in one, and an empty identifier:
\* one INSERT, from the first file.
C19_Witness ==
  /\ gen_pc = "done"
  /\ DOMAIN data_files.units = {"english", "newciv"}
  /\ [k \in 1..Len(Source("units")) |-> Source("units")[k].unit.id]
       = <<"archer", "", "archer", "archer">>
  /\ Len(BaseStatements("units")) = 1
  /\ BaseStatements("units")[1].name = NameAt("english", 1)

(***************************************************************************)
(* C20: the records of the batch that sync_civ_meta_stats upserts carry as *)
(* last_updated the time at which they were mapped, which is the time the  *)
(* GET of their pair had answered, not the time of the upsert: along the   *)
(* batch last_updated never decreases, and none is later than the time at  *)
(* which the upsert is issued. The clock starts at 0 with the call and     *)
(* never goes back; a GET takes one unit of time, so the time is the       *)
(* number of GETs made so far.                                             *)
(***************************************************************************)
GetsUpTo(n) == Cardinality({g \in 1..n : events[g].kind = "GET"})

C20_StampedAtMapping ==
  /\ utcnow = GetsUpTo(Len(events))
  /\ \A e \in 1..Len(events) :
       (events[e].kind = "UPSERT" /\ events[e].table = "civilization_meta_stats") =>
         LET rows == events[e].rows
         IN /\ \A a, b \in 1..Len(rows) :
                 a < b => rows[a].last_updated <= rows[b].last_updated
            /\ \A a \in 1..Len(rows) :
                 /\ rows[a].last_updated <= GetsUpTo(e)
                 /\ \E g \in 1..(e - 1) :
                      /\ events[g].kind = "GET"
                      /\ events[g].endpoint = <<"/stats/", rows[a].leaderboard>>
                      /\ events[g].params.rank_level = rows[a].rank_level
                      /\ rows[a].last_updated = GetsUpTo(g)

\* A batch whose first record was mapped before its last, and its last
\* before the upsert.
C20_Witness ==
  /\ pc = "returned"
  /\ top = "sync_civ_meta_stats"
  /\ Len(events) > 0
  /\ LET e == events[Len(events)]
     IN /\ e.kind = "UPSERT"
        /\ e.ok
        /\ e.rows[1].last_updated < e.rows[Len(e.rows)].last_updated
        /\ e.rows[Len(e.rows)].last_updated < utcnow

(***************************************************************************)
(* C21: in the batch that sync_civ_meta_stats upserts every pair has       *)
(* either all the records the API returned for it or none; a pair whose    *)
(* fetch failed, or one of whose records has a null civ_slug and so raises *)
(* while it is mapped, has none.                                           *)
(***************************************************************************)
\* How many rows of a batch belong to a pair
RowsOfPair(rows, pair) ==
  Cardinality({k \in 1..Len(rows) : <<rows[k].leaderboard, rows[k].rank_level>> = pair})
\* The processing of the pair raised: in the fetch or on a null civ_slug
PairRaised(e) ==
  \/ e.resp.status # "ok"
  \/ \E k \in 1..Len(Returned(e)) : Get(Returned(e)[k], "civ_slug", EmptyStr) = Null

C21_AllOrNone ==
  \A e \in 1..Len(events) :
    IsCivUpsert(events[e]) =>
      \A g \in 1..(e - 1) :
        IsStatsGet(events[g]) =>
          LET n == RowsOfPair(events[e].rows, PairAsked(events[g]))
          IN /\ n \in {0, Len(Returned(events[g]))}
             /\ PairRaised(events[g]) => n = 0

(***************************************************************************)
(* C22: the lists of the call have no repeated entries and every answer    *)
(* has pairwise different slugs; then no two records of the batch passed   *)
(* to upsert_civ_meta_stats have the same civ_id, leaderboard and          *)
(* rank_level.                                                             *)
(***************************************************************************)
SlugsDiffer(e) ==
  \A a, b \in 1..Len(Returned(e)) :
    a # b => Returned(e)[a].civ_slug # Returned(e)[b].civ_slug
KeysDiffer(rows) ==
  \A a, b \in 1..Len(rows) :
    a # b => <<rows[a].civ_id, rows[a].leaderboard, rows[a].rank_level>>
               # <<rows[b].civ_id, rows[b].leaderboard, rows[b].rank_level>>

C22_DistinctKeys ==
  \A e \in 1..Len(events) :
    (IsCivUpsert(events[e])
       /\ \A g \in 1..(e - 1) : IsStatsGet(events[g]) => SlugsDiffer(events[g]))
      => KeysDiffer(events[e].rows)

(***************************************************************************)
(* C22, amended: as above, and every slug answered is a slug of the static *)
(* table, or has no underscore and is not a value of the table; then no    *)
(* two records of the batch have the same civ_id, leaderboard and          *)
(* rank_level.                                                             *)
(***************************************************************************)
TableIds == {p[2] : p \in civ_map}
ApiSlug(slug) ==
  \/ slug \in TableSlugs
  \/ (\A k \in 1..Len(slug) : slug[k] # "_") /\ slug \notin TableIds
ApiSlugs(e) == \A k \in 1..Len(Returned(e)) : ApiSlug(Returned(e)[k].civ_slug)

C22_DistinctKeysOfApiSlugs ==
  \A e \in 1..Len(events) :
    (IsCivUpsert(events[e])
       /\ \A g \in 1..(e - 1) :
            IsStatsGet(events[g]) => SlugsDiffer(events[g]) /\ ApiSlugs(events[g]))
      => KeysDiffer(events[e].rows)

\* A batch of four pairs, each with a slug of the table and one that is not.
C22_Witness ==
  /\ pc = "returned"
  /\ Len(events) = 5
  /\ IsCivUpsert(events[5])
  /\ \A g \in 1..4 : SlugsDiffer(events[g]) /\ ApiSlugs(events[g])
  /\ \E g \in 1..4 :
       /\ Len(Returned(events[g])) = 2
       /\ Returned(events[g])[1].civ_slug \in TableSlugs
       /\ Returned(events[g])[2].civ_slug \notin TableSlugs
  /\ Len(events[5].rows) >= 4

====
